---- MODULE Spec2Model ----
(***************************************************************************)
(* Model of the Lovable MCP server (src/enhanced-simple-server.js): the    *)
(* eight analysis tools, the four resources, the three prompts and the     *)
(* request handlers that dispatch to them.                                  *)
(*                                                                         *)
(* Text is modelled as TLA+ strings, scanned character by character: the   *)
(* regular expressions of the source are written as atom sequences and     *)
(* run by a backtracking matcher with JavaScript's greedy, leftmost        *)
(* semantics.  A report is the object handed to JSON.stringify.            *)
(***************************************************************************)
EXTENDS Integers, Sequences, FiniteSets, TLC

-----------------------------------------------------------------------------
(* Characters and strings (String.prototype methods used by the source)    *)

LowerChars ==
    "abcdefghijklmnopqrstuvwxyz"

UpperChars ==
    "ABCDEFGHIJKLMNOPQRSTUVWXYZ"

DigitChars ==
    "0123456789"

CharsOf(s) ==
    { SubSeq(s, i, i) : i \in 1..Len(s) }

Lowers ==
    CharsOf(LowerChars)

Uppers ==
    CharsOf(UpperChars)

Digits ==
    CharsOf(DigitChars)

\* \w of a JavaScript regular expression
WordChars ==
    Lowers \cup Uppers \cup Digits \cup {"_"}

\* \s of a JavaScript regular expression (the characters the inputs use)
SpaceChars ==
    {" ", "\n", "\t"}

Min(a, b) ==
    IF a <= b THEN a ELSE b

Max(a, b) ==
    IF a >= b THEN a ELSE b

CharAt(s, i) ==
    SubSeq(s, i, i)

\* s.slice(i - 1, j) on a string, 1-based and inclusive
Sub(s, i, j) ==
    IF j < i THEN "" ELSE SubSeq(s, i, j)

\* s.startsWith(p)
StartsWith(s, p) ==
    Len(p) <= Len(s) /\ Sub(s, 1, Len(p)) = p

\* s.endsWith(p)
EndsWith(s, p) ==
    Len(p) <= Len(s) /\ Sub(s, Len(s) - Len(p) + 1, Len(s)) = p

\* the text p stands in s at position i
At(s, i, p) ==
    i >= 1 /\ i + Len(p) - 1 <= Len(s) /\ Sub(s, i, i + Len(p) - 1) = p

\* s.includes(p)
Includes(s, p) ==
    \E i \in 1..(Len(s) - Len(p) + 1) : At(s, i, p)

\* s.indexOf(p), 1-based, 0 when p does not occur
IndexOf(s, p) ==
    IF Includes(s, p)
    THEN CHOOSE i \in 1..(Len(s) - Len(p) + 1) :
            At(s, i, p) /\ \A j \in 1..(i - 1) : ~At(s, j, p)
    ELSE 0

\* s.replace(p, "") with a string pattern: the first occurrence only
RemoveFirst(s, p) ==
    LET i == IndexOf(s, p)
    IN  IF i = 0 THEN s ELSE Sub(s, 1, i - 1) \o Sub(s, i + Len(p), Len(s))

LowerChar(c) ==
    IF c \in Uppers
    THEN CharAt(LowerChars, CHOOSE i \in 1..Len(UpperChars) : CharAt(UpperChars, i) = c)
    ELSE c

RECURSIVE ToLower(_)
\* s.toLowerCase(); also the text an /i expression is matched against
ToLower(s) ==
    IF Len(s) = 0 THEN ""
    ELSE IF Len(s) = 1 THEN LowerChar(s)
    ELSE ToLower(Sub(s, 1, Len(s) \div 2)) \o ToLower(Sub(s, Len(s) \div 2 + 1, Len(s)))

UpperChar(c) ==
    IF c \in Lowers
    THEN CharAt(UpperChars, CHOOSE i \in 1..Len(LowerChars) : CharAt(LowerChars, i) = c)
    ELSE c

RECURSIVE ToUpper(_)
\* s.toUpperCase()
ToUpper(s) ==
    IF Len(s) = 0 THEN ""
    ELSE IF Len(s) = 1 THEN UpperChar(s)
    ELSE ToUpper(Sub(s, 1, Len(s) \div 2)) \o ToUpper(Sub(s, Len(s) \div 2 + 1, Len(s)))

RECURSIVE SplitOn(_, _, _)
\* s.split(sep) for a one-character separator, from position i on
SplitOn(s, sep, i) ==
    LET rest == Sub(s, i, Len(s))
        k    == IndexOf(rest, sep)
    IN  IF k = 0 THEN <<rest>>
        ELSE <<Sub(rest, 1, k - 1)>> \o SplitOn(s, sep, i + k)

\* the first position from i on whose character is (in = TRUE) or is not
\* (in = FALSE) in the set chars; Len(s) + 1 when there is none
Skip(s, i, chars, in) ==
    LET hits == { j \in i..Len(s) : (CharAt(s, j) \in chars) = in }
    IN  IF hits = {} THEN Len(s) + 1 ELSE CHOOSE j \in hits : \A h \in hits : j <= h

RECURSIVE SplitSpaces(_, _)
\* s.split(/\s+/) from position i on: the pieces between maximal runs of
\* whitespace, the empty pieces before a leading run and after a trailing
\* run included
SplitSpaces(s, i) ==
    LET sp == Skip(s, i, SpaceChars, TRUE)
    IN  IF sp > Len(s) THEN <<Sub(s, i, Len(s))>>
        ELSE <<Sub(s, i, sp - 1)>> \o SplitSpaces(s, Skip(s, sp, SpaceChars, FALSE))

\* s.trim() is not empty
TrimNonEmpty(s) ==
    \E i \in 1..Len(s) : CharAt(s, i) \notin SpaceChars

-----------------------------------------------------------------------------
(* Regular expressions.  An expression is a sequence of atoms:             *)
(*   [k |-> "lit", s]                  a literal text                      *)
(*   [k |-> "set", neg, set, min, max, cap]  a character class, repeated   *)
(*                                     greedily between min and max times  *)
(*   [k |-> "alt", opts, cap]          literal alternatives, in order      *)
(*   [k |-> "wb"]                      \b                                  *)
(*   [k |-> "opt", sub]                (?: sub )?                          *)
(* cap is the number of the capture group the atom fills (0: none).        *)

\* the repetition count of *, + (no input is longer)
Unbounded ==
    1000

Lit(s) ==
    [k |-> "lit", s |-> s, ci |-> FALSE]

\* a literal of an expression with the i flag, written in lower case
LitI(s) ==
    [k |-> "lit", s |-> s, ci |-> TRUE]

Cls(set, min, max) ==
    [k |-> "set", neg |-> FALSE, set |-> set, min |-> min, max |-> max, cap |-> 0]

NotCls(set, min, max) ==
    [k |-> "set", neg |-> TRUE, set |-> set, min |-> min, max |-> max, cap |-> 0]

Alt(opts) ==
    [k |-> "alt", opts |-> opts, cap |-> 0, ci |-> FALSE]

\* an alternation of an expression with the i flag, written in lower case
AltI(opts) ==
    [k |-> "alt", opts |-> opts, cap |-> 0, ci |-> TRUE]

Opt(sub) ==
    [k |-> "opt", sub |-> sub]

WordBoundary ==
    [k |-> "wb"]

Cap(atom, n) ==
    [atom EXCEPT !.cap = n]

\* \s*
Spaces0 ==
    Cls(SpaceChars, 0, Unbounded)

\* \s+
Spaces1 ==
    Cls(SpaceChars, 1, Unbounded)

\* ["']
Quote ==
    Cls({"\"", "'"}, 1, 1)

\* ([^"']+) as capture group n
Quoted(n) ==
    Cap(NotCls({"\"", "'"}, 1, Unbounded), n)

NoMatch ==
    [start |-> 0, end |-> 0, caps |-> <<>>]

InClass(a, c) ==
    IF a.neg THEN c \notin a.set ELSE c \in a.set

\* how many characters of t from position i on are in the class of a, up to n
ClassRun(a, t, i, n) ==
    LET stop == { j \in i..Len(t) : ~InClass(a, CharAt(t, j)) }
        run  == IF stop = {} THEN Len(t) + 1 - i
                ELSE (CHOOSE j \in stop : \A h \in stop : j <= h) - i
    IN  Min(run, n)

IsWordAt(t, i) ==
    i >= 1 /\ i <= Len(t) /\ CharAt(t, i) \in WordChars

\* the literal p (in lower case when ci) is at position i of t
LitAt(t, i, p, ci) ==
    IF ci
    THEN i >= 1 /\ i + Len(p) - 1 <= Len(t) /\ ToLower(Sub(t, i, i + Len(p) - 1)) = p
    ELSE At(t, i, p)

SetCap(caps, n, from, to) ==
    IF n = 0 THEN caps ELSE [caps EXCEPT ![n] = <<from, to>>]

RECURSIVE MatchAt(_, _, _, _, _)
RECURSIVE TryAlt(_, _, _, _, _, _)

\* the match of atoms k.. at position i of t: [end, caps], end being the
\* position after the match, or NoMatch
MatchAt(atoms, k, t, i, caps) ==
    IF k > Len(atoms) THEN [start |-> 0, end |-> i, caps |-> caps]
    ELSE LET a == atoms[k]
         IN  CASE a.k = "lit" ->
                    IF LitAt(t, i, a.s, a.ci)
                    THEN MatchAt(atoms, k + 1, t, i + Len(a.s), caps)
                    ELSE NoMatch
               [] a.k = "set" ->
                    \* greedy repetition: the longest run that lets the
                    \* rest match (backtracking from the longest)
                    LET rest(n) == MatchAt(atoms, k + 1, t, i + n,
                                           SetCap(caps, a.cap, i, i + n - 1))
                        ok == { n \in a.min..ClassRun(a, t, i, a.max) : rest(n).end # 0 }
                    IN  IF ok = {} THEN NoMatch
                        ELSE rest(CHOOSE n \in ok : \A m \in ok : m <= n)
               [] a.k = "alt" ->
                    TryAlt(atoms, k, t, i, caps, 1)
               [] a.k = "wb" ->
                    IF IsWordAt(t, i - 1) # IsWordAt(t, i)
                    THEN MatchAt(atoms, k + 1, t, i, caps)
                    ELSE NoMatch
               [] a.k = "opt" ->
                    LET rest == SubSeq(atoms, k + 1, Len(atoms))
                        with == MatchAt(a.sub \o rest, 1, t, i, caps)
                    IN  IF with.end # 0 THEN with
                        ELSE MatchAt(atoms, k + 1, t, i, caps)

\* alternation: the first alternative that lets the rest match
TryAlt(atoms, k, t, i, caps, j) ==
    IF j > Len(atoms[k].opts) THEN NoMatch
    ELSE LET o == atoms[k].opts[j]
             r == IF LitAt(t, i, o, atoms[k].ci)
                  THEN MatchAt(atoms, k + 1, t, i + Len(o),
                               SetCap(caps, atoms[k].cap, i, i + Len(o) - 1))
                  ELSE NoMatch
         IN  IF r.end # 0 THEN r ELSE TryAlt(atoms, k, t, i, caps, j + 1)

NoCaps ==
    <<<<0, 0>>, <<0, 0>>>>

\* the positions of t where a match of atoms starts
Hits(atoms, t) ==
    { j \in 1..(Len(t) + 1) : MatchAt(atoms, 1, t, j, NoCaps).end # 0 }

Least(S) ==
    CHOOSE j \in S : \A h \in S : j <= h

\* the match that starts at the first of the positions hits at or after i
FirstOf(atoms, t, hits, i) ==
    IF \A j \in hits : j < i THEN NoMatch
    ELSE [MatchAt(atoms, 1, t, Least({ j \in hits : j >= i }), NoCaps)
            EXCEPT !.start = Least({ j \in hits : j >= i })]

\* RegExp.prototype.exec from lastIndex = i - 1: the leftmost match at or
\* after position i
Search(atoms, t, i) ==
    FirstOf(atoms, t, Hits(atoms, t), i)

RECURSIVE MatchesFrom(_, _, _, _)
RECURSIVE Resume(_, _, _, _)
\* the exec loop of a /g expression from position i on, hits being the
\* positions of t where a match starts
MatchesFrom(atoms, t, hits, i) ==
    IF \A j \in hits : j < i THEN <<>>
    ELSE Resume(atoms, t, hits, FirstOf(atoms, t, hits, i))

\* the match m, then the matches after it: the search resumes where m
\* ended, one further on after an empty match
Resume(atoms, t, hits, m) ==
    <<m>> \o MatchesFrom(atoms, t, hits, Max(m.end, m.start + 1))

\* the matches of a /g expression in order: the exec loop, String.match and
\* String.matchAll
AllMatches(atoms, t, i) ==
    MatchesFrom(atoms, t, Hits(atoms, t), i)

\* RegExp.prototype.test without the g flag
Test(atoms, t) ==
    Search(atoms, t, 1).end # 0

\* match[0]: the matched text
Whole(s, m) ==
    Sub(s, m.start, m.end - 1)

\* match[n]: the text of capture group n
Group(s, m, n) ==
    Sub(s, m.caps[n][1], m.caps[n][2])


-----------------------------------------------------------------------------
(* Sequences, and Map objects as sequences of <<key, value>> pairs in      *)
(* insertion order (the iteration order of a JavaScript Map)               *)

\* a slice that keeps one element more
SliceOneMore(xs, n) ==
    SubSeq(xs, 1, Min(n + 1, Len(xs)))

\* xs.slice(0, n)
Slice(xs, n) ==
    SubSeq(xs, 1, Min(n, Len(xs)))

RECURSIVE Filter(_, _)
\* xs.filter(keep), keep being the set of the elements kept
Filter(xs, keep) ==
    IF Len(xs) = 0 THEN <<>>
    ELSE IF Len(xs) = 1 THEN (IF xs[1] \in keep THEN xs ELSE <<>>)
    ELSE Filter(SubSeq(xs, 1, Len(xs) \div 2), keep)
         \o Filter(SubSeq(xs, Len(xs) \div 2 + 1, Len(xs)), keep)

RECURSIVE Dedup(_)
\* [...new Set(xs)]: the first occurrence of each element, in order
Dedup(xs) ==
    IF Len(xs) <= 1 THEN xs
    ELSE LET front == Dedup(SubSeq(xs, 1, Len(xs) \div 2))
             back  == Dedup(SubSeq(xs, Len(xs) \div 2 + 1, Len(xs)))
         IN  front \o Filter(back, { back[i] : i \in 1..Len(back) }
                                   \ { front[i] : i \in 1..Len(front) })

Range(xs) ==
    { xs[i] : i \in 1..Len(xs) }

MapHas(m, key) ==
    \E i \in 1..Len(m) : m[i][1] = key

\* m.get(key) || 0
MapGet(m, key) ==
    IF MapHas(m, key) THEN (CHOOSE e \in Range(m) : e[1] = key)[2] ELSE 0

\* m.set(key, val): a known key keeps its place, a new key goes last
MapSet(m, key, val) ==
    IF MapHas(m, key)
    THEN [i \in 1..Len(m) |-> IF m[i][1] = key THEN <<key, val>> ELSE m[i]]
    ELSE Append(m, <<key, val>>)

\* m.set(key, (m.get(key) || 0) + n)
MapAdd(m, key, n) ==
    MapSet(m, key, MapGet(m, key) + n)

RECURSIVE MapAddAll(_, _)
\* keys.forEach(k => m.set(k, (m.get(k) || 0) + 1))
MapAddAll(m, keys) ==
    IF keys = <<>> THEN m ELSE MapAddAll(MapAdd(m, Head(keys), 1), Tail(keys))

RECURSIVE InsertDescBeforeTies(_, _)
\* e placed before the entries of its own count
InsertDescBeforeTies(sorted, e) ==
    IF sorted = <<>> THEN <<e>>
    ELSE IF Head(sorted)[2] > e[2]
         THEN <<Head(sorted)>> \o InsertDescBeforeTies(Tail(sorted), e)
         ELSE <<e>> \o sorted

RECURSIVE InsertDesc(_, _)
\* e placed after every entry whose count is not smaller
InsertDesc(sorted, e) ==
    IF sorted = <<>> THEN <<e>>
    ELSE IF Head(sorted)[2] >= e[2] THEN <<Head(sorted)>> \o InsertDesc(Tail(sorted), e)
         ELSE <<e>> \o sorted

RECURSIVE SortDesc(_)
\* entries.sort((a, b) => b[1] - a[1]): Array.prototype.sort is stable
SortDesc(entries) ==
    IF entries = <<>> THEN <<>>
    ELSE InsertDesc(SortDesc(SubSeq(entries, 1, Len(entries) - 1)), entries[Len(entries)])

RECURSIVE SumCounts(_)
\* [...m.values()].reduce((a, b) => a + b, 0)
SumCounts(m) ==
    IF m = <<>> THEN 0 ELSE Head(m)[2] + SumCounts(Tail(m))

-----------------------------------------------------------------------------
(* Paths and fast-glob.  A path is relative to the project root, with "/"  *)
(* between its segments.  fg(patterns, {cwd, ignore}) walks the tree and   *)
(* returns, in traversal order and once each, the files that match a       *)
(* pattern and no ignore pattern; with the default dot: false neither "*"  *)
(* nor a globstar matches a segment that starts with ".".                  *)

Segments(path) ==
    SplitOn(path, "/", 1)

\* path.basename(path)
BaseName(path) ==
    Segments(path)[Len(Segments(path))]

DirSegments(path) ==
    SubSeq(Segments(path), 1, Len(Segments(path)) - 1)

Hidden(path) ==
    \E i \in 1..Len(Segments(path)) : StartsWith(Segments(path)[i], ".")

\* the base name matches  <prefix>*<middle>*.{exts}
BaseMatches(path, prefix, middle, exts) ==
    \E e \in exts :
        LET b    == BaseName(path)
            stem == Sub(b, 1, Len(b) - Len(e) - 1)
        IN  /\ EndsWith(b, "." \o e)
            /\ Len(b) >= Len(prefix) + Len(e) + 1
            /\ StartsWith(stem, prefix)
            /\ Includes(Sub(stem, Len(prefix) + 1, Len(stem)), middle)

\* the base name is  <name>.{exts}
BaseIs(path, name, exts) ==
    \E e \in exts : BaseName(path) = name \o "." \o e

\* Under looking at the first directory segment only
UnderAtRoot(path, dir) ==
    Len(Segments(path)) > 1 /\ Segments(path)[1] = dir

\* the path has a directory segment named dir
Under(path, dir) ==
    \E i \in 1..Len(DirSegments(path)) : DirSegments(path)[i] = dir

\* the ignore option of every tool's enumeration
ToolIgnore ==
    {"node_modules", "dist", "build"}

\* the ignore option of the structure resource
StructureIgnore ==
    {"node_modules", "dist", "build", ".git"}

Ignored(path, dirs) ==
    \E d \in dirs : Under(path, d)

SourceExts ==
    {"tsx", "jsx", "ts", "js"}

\* '**/*.{tsx,jsx,ts,js}'
IsSourceFile(path) ==
    ~Hidden(path) /\ BaseMatches(path, "", "", SourceExts) /\ ~Ignored(path, ToolIgnore)

\* '**/*.{tsx,jsx}'
IsComponentFile(path) ==
    ~Hidden(path) /\ BaseMatches(path, "", "", {"tsx", "jsx"}) /\ ~Ignored(path, ToolIgnore)

\* router*, routes*, App, main, index with a source extension
IsRoutingFile(path) ==
    /\ ~Hidden(path)
    /\ ~Ignored(path, ToolIgnore)
    /\ \/ BaseMatches(path, "router", "", SourceExts)
       \/ BaseMatches(path, "routes", "", SourceExts)
       \/ BaseIs(path, "App", SourceExts)
       \/ BaseIs(path, "main", SourceExts)
       \/ BaseIs(path, "index", SourceExts)

\* the six schema patterns
IsSchemaFile(path) ==
    /\ ~Hidden(path)
    /\ ~Ignored(path, ToolIgnore)
    /\ \/ BaseMatches(path, "schema", "", {"sql", "ts", "js"})
       \/ BaseMatches(path, "database", "", {"sql", "ts", "js"})
       \/ Under(path, "migrations") /\ BaseMatches(path, "", "", {"sql", "ts", "js"})
       \/ Under(path, "supabase") /\ BaseMatches(path, "", "", {"sql", "ts", "js"})
       \/ Under(path, "types") /\ BaseMatches(path, "", "database", {"ts", "js"})
       \/ Under(path, "types") /\ BaseMatches(path, "", "supabase", {"ts", "js"})

\* '**/*'
IsStructureFile(path) ==
    ~Hidden(path) /\ ~Ignored(path, StructureIgnore)

Paths(tree) ==
    [i \in 1..Len(tree) |-> tree[i].path]

\* the enumerations of the source, by the name the model gives each
GlobKinds ==
    {"source", "component", "routing", "schema", "structure"}

\* the path is among the results of the enumeration
Matches(path, kind) ==
    CASE kind = "source"    -> IsSourceFile(path)
      [] kind = "component" -> IsComponentFile(path)
      [] kind = "routing"   -> IsRoutingFile(path)
      [] kind = "schema"    -> IsSchemaFile(path)
      [] kind = "structure" -> IsStructureFile(path)

\* basename(file, '.tsx').replace('.jsx', '')
ComponentName(file) ==
    LET b == BaseName(file)
        stripped == IF EndsWith(b, ".tsx") /\ b # ".tsx"
                    THEN Sub(b, 1, Len(b) - 4) ELSE b
    IN  RemoveFirst(stripped, ".jsx")


-----------------------------------------------------------------------------
(* get_components and get_routing_structure: the body of the file loop     *)

RECURSIVE MatchTexts(_, _, _)
\* the captured text n (0: the whole match) of each match, in order
MatchTexts(s, ms, n) ==
    IF ms = <<>> THEN <<>>
    ELSE <<IF n = 0 THEN Whole(s, Head(ms)) ELSE Group(s, Head(ms), n)>>
         \o MatchTexts(s, Tail(ms), n)

\* the component descriptor pushed for one file
componentOf(file, content) ==
    LET exportKw == <<Lit("export"), Spaces1>>
    IN  [ path             |-> file,
          name             |-> ComponentName(file),
          size             |-> Len(content),
          hasDefaultExport |-> Test(exportKw \o <<Lit("default")>>, content),
          hasNamedExports  |-> Test(exportKw \o <<Alt(<<"const", "function", "class",
                                                        "interface", "type">>)>>, content),
          hasJSX           |-> Includes(content, "<") /\ Includes(content, ">"),
          hasProps         |-> Test(<<Alt(<<"props", "Props">>)>>, content),
          hasState         |-> Test(<<Alt(<<"useState", "setState", "state">>)>>, content),
          hasEffects       |-> Test(<<Lit("useEffect")>>, content),
          isComponent      |-> Test(exportKw \o <<Opt(<<Lit("default"), Spaces1>>),
                                                  Alt(<<"function", "const", "class">>)>>,
                                    content) ]

\* routePatterns, in the order of the source
routePatterns ==
    LET eq(chars) == <<Spaces0, Cls(chars, 1, 1), Spaces0, Quote, Quoted(1), Quote>>
    IN  << <<Lit("path")>> \o eq({":", "="}),
           <<Lit("route")>> \o eq({":", "="}),
           <<Lit("<Route"), NotCls({">"}, 1, Unbounded), Lit("path")>> \o eq({"="}),
           <<Lit("{"), Spaces0, Lit("path")>> \o eq({":"}) >>

\* routes.push for each match of one pattern
RouteFacts(file, paths, prot) ==
    [i \in 1..Len(paths) |->
        [ path        |-> paths[i],
          file        |-> file,
          component   |-> ComponentName(file),
          isProtected |-> prot ]]

RECURSIVE routesOfCaseSensitive(_, _, _)
\* routesOf testing the content without the i flag
routesOfCaseSensitive(file, content, k) ==
    IF k > Len(routePatterns) THEN <<>>
    ELSE RouteFacts(file,
                    MatchTexts(content, AllMatches(routePatterns[k], content, 1), 1),
                    Test(<<Alt(<<"protected", "private", "auth">>)>>, content))
         \o routesOfCaseSensitive(file, content, k + 1)

RECURSIVE routesOf(_, _, _)
\* the route facts pushed for one file: for each pattern from k on, in
\* order, one fact per match
routesOf(file, content, k) ==
    IF k > Len(routePatterns) THEN <<>>
    ELSE RouteFacts(file,
                    MatchTexts(content, AllMatches(routePatterns[k], content, 1), 1),
                    Test(<<AltI(<<"protected", "private", "auth">>)>>, content))
         \o routesOf(file, content, k + 1)

getComponentsReport(componentFiles, components) ==
    [ totalComponents |-> Len(componentFiles),
      analyzed        |-> Len(components),
      components      |-> components ]

getRoutingStructureReport(routingFiles, routes) ==
    [ routingFiles   |-> routingFiles,
      routes         |-> Slice(routes, 20),
      totalRoutes    |-> Len(routes),
      hasReactRouter |-> \E i \in 1..Len(routes) : Includes(routes[i].path, "/") ]


-----------------------------------------------------------------------------
(* analyze_project and analyze_dependencies.  A parsed manifest is         *)
(* [name, version, dependencies, devDependencies]; a dependency object is  *)
(* the sequence of its [name, version] entries (Object.entries); a missing *)
(* name or version is "", a missing dependency object is <<>>.             *)

\* resolve(projectPath)
resolvedPath ==
    "/home/dev/app"

\* deps[key]: the version, or "" (falsy) when the key is missing
DepVersion(deps, key) ==
    IF \E i \in 1..Len(deps) : deps[i].name = key
    THEN (CHOOSE d \in Range(deps) : d.name = key).version
    ELSE ""

\* !!deps[key]
HasDep(deps, key) ==
    DepVersion(deps, key) # ""

\* packageInfo?.dependencies?.[key] || packageInfo?.devDependencies?.[key]
HasPackage(packageInfo, key) ==
    /\ packageInfo.kind = "object"
    /\ HasDep(packageInfo.dependencies, key) \/ HasDep(packageInfo.devDependencies, key)

\* CountExt counting the files that have ext anywhere in their path: a
\* .tsx file is counted under .ts too
CountExtAnywhere(files, ext) ==
    Cardinality({ i \in 1..Len(files) : Includes(files[i], ext) })

CountExt(files, ext) ==
    Cardinality({ i \in 1..Len(files) : EndsWith(files[i], ext) })

\* the analysis object of analyzeProject; packageInfo.kind = "none" is null
analyzeProjectReport(packageInfo, files, timestamp) ==
    LET named == packageInfo.kind = "object"
    IN  [ projectPath    |-> resolvedPath,
          packageName    |-> IF named /\ packageInfo.name # ""
                             THEN packageInfo.name ELSE "Unknown",
          packageVersion |-> IF named /\ packageInfo.version # ""
                             THEN packageInfo.version ELSE "Unknown",
          totalFiles     |-> Len(files),
          fileTypes      |-> [ tsx |-> CountExt(files, ".tsx"),
                               jsx |-> CountExt(files, ".jsx"),
                               ts  |-> CountExt(files, ".ts"),
                               js  |-> CountExt(files, ".js") ],
          hasReact       |-> HasPackage(packageInfo, "react"),
          hasTypeScript  |-> HasPackage(packageInfo, "typescript"),
          hasVite        |-> HasPackage(packageInfo, "vite"),
          hasNext        |-> HasPackage(packageInfo, "next"),
          hasTailwind    |-> HasPackage(packageInfo, "tailwindcss"),
          hasSupabase    |-> HasPackage(packageInfo, "@supabase/supabase-js"),
          timestamp      |-> timestamp ]

IncludesAny(name, parts) ==
    \E q \in parts : Includes(name, q)

\* a categorizePackage that tests the routing substrings before the others
categoryOfRoutingFirst(name) ==
    IF IncludesAny(name, {"router", "navigation", "reach"}) THEN "routing"
    ELSE IF IncludesAny(name, {"react", "@types/react"}) THEN "react"
    ELSE IF IncludesAny(name, {"ui", "component", "material", "ant", "chakra"}) THEN "ui"
    ELSE IF IncludesAny(name, {"redux", "zustand", "jotai", "recoil"}) THEN "state"
    ELSE IF IncludesAny(name, {"styled", "emotion", "tailwind", "css", "sass"}) THEN "styling"
    ELSE IF IncludesAny(name, {"supabase", "prisma", "mongoose", "firebase"}) THEN "database"
    ELSE IF IncludesAny(name, {"vite", "webpack", "rollup", "babel", "esbuild"}) THEN "build"
    ELSE IF IncludesAny(name, {"test", "jest", "vitest", "cypress", "playwright"}) THEN "testing"
    ELSE IF IncludesAny(name, {"lodash", "axios", "dayjs", "uuid", "clsx"}) THEN "utilities"
    ELSE "other"

\* the category whose array categorizePackage pushes the package to
categoryOf(name) ==
    IF IncludesAny(name, {"react", "@types/react"}) THEN "react"
    ELSE IF IncludesAny(name, {"ui", "component", "material", "ant", "chakra"}) THEN "ui"
    ELSE IF IncludesAny(name, {"redux", "zustand", "jotai", "recoil"}) THEN "state"
    ELSE IF IncludesAny(name, {"router", "navigation", "reach"}) THEN "routing"
    ELSE IF IncludesAny(name, {"styled", "emotion", "tailwind", "css", "sass"}) THEN "styling"
    ELSE IF IncludesAny(name, {"supabase", "prisma", "mongoose", "firebase"}) THEN "database"
    ELSE IF IncludesAny(name, {"vite", "webpack", "rollup", "babel", "esbuild"}) THEN "build"
    ELSE IF IncludesAny(name, {"test", "jest", "vitest", "cypress", "playwright"}) THEN "testing"
    ELSE IF IncludesAny(name, {"lodash", "axios", "dayjs", "uuid", "clsx"}) THEN "utilities"
    ELSE "other"

\* the keys of categories, in the order of the object literal
CategoryNames ==
    <<"react", "ui", "state", "routing", "styling", "database", "build", "testing",
      "utilities", "other">>

\* categorizePackage(name, version) on the categories object
categorizePackage(categories, name, version) ==
    [categories EXCEPT ![categoryOf(name)] = Append(@, [name |-> name, version |-> version])]

RECURSIVE categorizeAll(_, _)
\* Object.entries(deps).forEach(([name, version]) => categorizePackage(name, version))
categorizeAll(categories, deps) ==
    IF deps = <<>> THEN categories
    ELSE categorizeAll(categorizePackage(categories, Head(deps).name, Head(deps).version),
                       Tail(deps))

\* the report of analyzeDependencies for a manifest that parsed to an object
analyzeDependenciesReport(packageInfo) ==
    LET dependencies    == packageInfo.dependencies
        devDependencies == packageInfo.devDependencies
        empty           == [c \in Range(CategoryNames) |-> <<>>]
    IN  [ totalDependencies    |-> Len(dependencies),
          totalDevDependencies |-> Len(devDependencies),
          categories           |-> categorizeAll(categorizeAll(empty, dependencies),
                                                 devDependencies),
          frameworks |->
            [ hasReact      |-> HasDep(dependencies, "react"),
              hasNext       |-> HasDep(dependencies, "next"),
              hasVite       |-> HasDep(dependencies, "vite") \/ HasDep(devDependencies, "vite"),
              hasTailwind   |-> HasDep(dependencies, "tailwindcss")
                                \/ HasDep(devDependencies, "tailwindcss"),
              hasSupabase   |-> HasDep(dependencies, "@supabase/supabase-js"),
              hasTypeScript |-> HasDep(devDependencies, "typescript")
                                \/ HasDep(dependencies, "typescript") ] ]


-----------------------------------------------------------------------------
(* get_tailwind_usage                                                      *)

\* SplitAll taking each attribute value for one token
SplitNone(values) ==
    values

RECURSIVE SplitAll(_)
\* for each match: classNames.push(...match[1].split(/\s+/))
SplitAll(values) ==
    IF values = <<>> THEN <<>>
    ELSE SplitSpaces(Head(values), 1) \o SplitAll(Tail(values))

\* classNames of one file: the tokens of every class attribute value, the
\* matches of the three expressions taken one expression after the other
classNamesOf(content) ==
    LET attr(name) == <<Lit(name), Spaces0, Lit("="), Spaces0>>
        plain    == attr("className") \o <<Quote, Quoted(1), Quote>>
        braced   == attr("className")
                    \o <<Lit("{"), NotCls({"}"}, 0, Unbounded), Quote, Quoted(1), Quote,
                         NotCls({"}"}, 0, Unbounded), Lit("}")>>
        html     == attr("class") \o <<Quote, Quoted(1), Quote>>
        texts(re) == MatchTexts(content, AllMatches(re, content, 1), 1)
    IN  SplitAll(texts(plain) \o texts(braced) \o texts(html))

\* the tokens that classUsage counts: cls.trim() && cls.length > 0
Tallied(classNames) ==
    Filter(classNames, { c \in Range(classNames) : TrimNonEmpty(c) /\ Len(c) > 0 })

\* the body of the file loop of getTailwindUsage
getTailwindUsageStep(acc, file, classNames) ==
    [ classUsage |-> MapAddAll(acc.classUsage, Tallied(classNames)),
      fileUsage  |-> IF Len(classNames) > 0
                     THEN Append(acc.fileUsage,
                                 [ file          |-> file,
                                   uniqueClasses |-> Len(Dedup(classNames)),
                                   totalClasses  |-> Len(classNames),
                                   topClasses    |-> Slice(Dedup(classNames), 10) ])
                     ELSE acc.fileUsage ]

StartsWithAny(cls, prefixes) ==
    \E q \in prefixes : StartsWith(cls, q)

\* sortedClasses.filter(([cls]) => /^(...)/.test(cls)) for one bucket
Bucket(sortedClasses, prefixes) ==
    Filter(sortedClasses, { e \in Range(sortedClasses) : StartsWithAny(e[1], prefixes) })

\* entries.map(([cls, count]) => ({ class: cls, count }))
ClassEntries(entries) ==
    [i \in 1..Len(entries) |-> [class |-> entries[i][1], count |-> entries[i][2]]]

\* getTailwindUsageReport filtering the patterns out of every class counted
\* instead of the thirty most used
getTailwindUsageReportOfAll(sourceFiles, acc) ==
    LET ranking       == SortDesc(acc.classUsage)
        sortedClasses == Slice(ranking, 30)
        patterns ==
          [ layout     |-> Bucket(ranking, {"flex", "grid", "block", "inline", "hidden",
                                            "w-", "h-", "p-", "m-", "space-", "gap-"}),
            colors     |-> Bucket(ranking, {"bg-", "text-", "border-", "from-", "to-", "via-"}),
            typography |-> Bucket(ranking, {"text-", "font-", "leading-", "tracking-",
                                            "uppercase", "lowercase"}),
            responsive |-> Bucket(ranking, {"sm:", "md:", "lg:", "xl:", "2xl:"}) ]
    IN  [ totalFiles         |-> Len(sourceFiles),
          analyzedFiles      |-> Len(acc.fileUsage),
          totalUniqueClasses |-> Len(acc.classUsage),
          mostUsedClasses    |-> ClassEntries(sortedClasses),
          patterns |->
            [ layout     |-> ClassEntries(Slice(patterns.layout, 10)),
              colors     |-> ClassEntries(Slice(patterns.colors, 10)),
              typography |-> ClassEntries(Slice(patterns.typography, 10)),
              responsive |-> ClassEntries(Slice(patterns.responsive, 10)) ],
          fileUsage          |-> Slice(acc.fileUsage, 10) ]

getTailwindUsageReport(sourceFiles, acc) ==
    LET sortedClasses == Slice(SortDesc(acc.classUsage), 30)
        patterns ==
          [ layout     |-> Bucket(sortedClasses, {"flex", "grid", "block", "inline", "hidden",
                                                  "w-", "h-", "p-", "m-", "space-", "gap-"}),
            colors     |-> Bucket(sortedClasses, {"bg-", "text-", "border-", "from-", "to-",
                                                  "via-"}),
            typography |-> Bucket(sortedClasses, {"text-", "font-", "leading-", "tracking-",
                                                  "uppercase", "lowercase"}),
            responsive |-> Bucket(sortedClasses, {"sm:", "md:", "lg:", "xl:", "2xl:"}) ]
    IN  [ totalFiles         |-> Len(sourceFiles),
          analyzedFiles      |-> Len(acc.fileUsage),
          totalUniqueClasses |-> Len(acc.classUsage),
          mostUsedClasses    |-> ClassEntries(sortedClasses),
          patterns |->
            [ layout     |-> ClassEntries(Slice(patterns.layout, 10)),
              colors     |-> ClassEntries(Slice(patterns.colors, 10)),
              typography |-> ClassEntries(Slice(patterns.typography, 10)),
              responsive |-> ClassEntries(Slice(patterns.responsive, 10)) ],
          fileUsage          |-> Slice(acc.fileUsage, 10) ]

-----------------------------------------------------------------------------
(* get_hooks_usage                                                         *)

builtInHooks ==
    <<"useState", "useEffect", "useContext", "useReducer", "useCallback",
      "useMemo", "useRef", "useLayoutEffect", "useDebugValue", "useId">>

\* hooksOf counting a built-in hook wherever its name is written, inside a
\* longer identifier too
hooksOfAnywhere(content) ==
    LET custom  == <<WordBoundary, Lit("use"), Cls(Uppers, 1, 1),
                     Cls(Lowers \cup Uppers \cup Digits, 0, Unbounded), WordBoundary>>
    IN  [ builtIn |-> [i \in 1..Len(builtInHooks) |->
                         Len(AllMatches(<<Lit(builtInHooks[i])>>, content, 1))],
          customHookMatches |-> MatchTexts(content, AllMatches(custom, content, 1), 0) ]

\* what the expressions of the loop body find in one file: for each
\* built-in hook the number of matches of \bhook\b, and the matches of
\* \buse[A-Z][a-zA-Z0-9]*\b in order
hooksOf(content) ==
    LET word(h) == <<WordBoundary, Lit(h), WordBoundary>>
        custom  == <<WordBoundary, Lit("use"), Cls(Uppers, 1, 1),
                     Cls(Lowers \cup Uppers \cup Digits, 0, Unbounded), WordBoundary>>
    IN  [ builtIn |-> [i \in 1..Len(builtInHooks) |->
                         Len(AllMatches(word(builtInHooks[i]), content, 1))],
          customHookMatches |-> MatchTexts(content, AllMatches(custom, content, 1), 0) ]

RECURSIVE AddBuiltIn(_, _, _)
\* builtInHooks.forEach from hook i on: a hook with matches is counted
AddBuiltIn(hookUsage, counts, i) ==
    IF i > Len(builtInHooks) THEN hookUsage
    ELSE AddBuiltIn(IF counts[i] > 0 THEN MapAdd(hookUsage, builtInHooks[i], counts[i])
                    ELSE hookUsage,
                    counts, i + 1)

\* the body of the file loop of getHooksUsage
getHooksUsageStep(acc, file, found) ==
    LET fileHooks == Filter(builtInHooks,
                            { builtInHooks[i] : i \in { j \in 1..Len(builtInHooks) :
                                                        found.builtIn[j] > 0 } })
        matches   == found.customHookMatches
        notBuiltIn == Filter(matches, Range(matches) \ Range(builtInHooks))
    IN  [ hookUsage   |-> MapAddAll(AddBuiltIn(acc.hookUsage, found.builtIn, 1), notBuiltIn),
          customHooks |-> acc.customHooks
                          \o [i \in 1..Len(notBuiltIn) |-> [hook |-> notBuiltIn[i], file |-> file]],
          fileUsage   |-> IF Len(fileHooks) > 0 \/ Len(matches) > 0
                          THEN Append(acc.fileUsage,
                                      [ file         |-> file,
                                        builtInHooks |-> fileHooks,
                                        customHooks  |-> notBuiltIn ])
                          ELSE acc.fileUsage ]

getHooksUsageReport(sourceFiles, acc) ==
    LET sortedHooks == SortDesc(acc.hookUsage)
        top         == Slice(sortedHooks, 20)
    IN  [ totalFiles       |-> Len(sourceFiles),
          analyzedFiles    |-> Len(acc.fileUsage),
          totalHooksUsage  |-> SumCounts(acc.hookUsage),
          mostUsedHooks    |-> [i \in 1..Len(top) |-> [hook |-> top[i][1], count |-> top[i][2]]],
          customHooksFound |-> Dedup([i \in 1..Len(acc.customHooks) |-> acc.customHooks[i].hook]),
          fileUsage        |-> Slice(acc.fileUsage, 15) ]


-----------------------------------------------------------------------------
(* analyze_api_calls.  A call fact is [type, url, method, table, endpoint, *)
(* file]; a property the source leaves out of a fact is "".                *)

CallFact(file, type, url, method, table, endpoint) ==
    [ type |-> type, url |-> url, method |-> method, table |-> table,
      endpoint |-> endpoint, file |-> file ]

FetchFacts(file, content, ms) ==
    [i \in 1..Len(ms) |-> CallFact(file, "fetch", Group(content, ms[i], 1), "GET", "", "")]

AxiosFacts(file, content, ms) ==
    [i \in 1..Len(ms) |->
        CallFact(file, "axios", Group(content, ms[i], 2),
                 ToUpper(Group(content, ms[i], 1)), "", "")]

SupabaseFacts(file, content, ms) ==
    [i \in 1..Len(ms) |-> CallFact(file, "supabase", "", "", Group(content, ms[i], 1), "")]

EndpointFacts(file, content, ms) ==
    [i \in 1..Len(ms) |->
        CallFact(file, "api_endpoint", "", "", "", Group(content, ms[i], 1))]

\* apiCallsOf taking a literal for the shape that matches it first: a
\* file with a fetch call adds no endpoint facts
apiCallsOfFirstShape(file, content) ==
    LET open     == <<Spaces0, Lit("("), Spaces0, Quote>>
        fetch    == <<Lit("fetch")>> \o open \o <<Quoted(1), Quote>>
        axios    == <<Lit("axios"), Spaces0, Lit("."), Spaces0,
                      Cap(Alt(<<"get", "post", "put", "delete", "patch">>), 1)>>
                    \o open \o <<Quoted(2), Quote>>
        supabase == <<Lit("supabase"), Spaces0, Lit("."), Spaces0, Lit("from")>>
                    \o open \o <<Quoted(1), Quote, Lit(")")>>
        endpoints == <<Quote, Lit("/api/"), Quoted(1), Quote>>
        fetched  == AllMatches(fetch, content, 1)
    IN  FetchFacts(file, content, fetched)
        \o AxiosFacts(file, content, AllMatches(axios, content, 1))
        \o SupabaseFacts(file, content, AllMatches(supabase, content, 1))
        \o (IF fetched # <<>> THEN <<>>
            ELSE EndpointFacts(file, content, AllMatches(endpoints, content, 1)))

\* the facts pushed for one file: the fetch loop, then axios, supabase and
\* the endpoints; each exec loop runs to null, which resets lastIndex
apiCallsOf(file, content) ==
    LET open     == <<Spaces0, Lit("("), Spaces0, Quote>>
        fetch    == <<Lit("fetch")>> \o open \o <<Quoted(1), Quote>>
        axios    == <<Lit("axios"), Spaces0, Lit("."), Spaces0,
                      Cap(Alt(<<"get", "post", "put", "delete", "patch">>), 1)>>
                    \o open \o <<Quoted(2), Quote>>
        supabase == <<Lit("supabase"), Spaces0, Lit("."), Spaces0, Lit("from")>>
                    \o open \o <<Quoted(1), Quote, Lit(")")>>
        endpoints == <<Quote, Lit("/api/"), Quoted(1), Quote>>
    IN  FetchFacts(file, content, AllMatches(fetch, content, 1))
        \o AxiosFacts(file, content, AllMatches(axios, content, 1))
        \o SupabaseFacts(file, content, AllMatches(supabase, content, 1))
        \o EndpointFacts(file, content, AllMatches(endpoints, content, 1))

\* new URL(url).hostname for an http(s) URL; "" when new URL(url) throws
\* (a text without a scheme)
HostName(url) ==
    LET scheme == IF StartsWith(url, "https://") THEN 8
                  ELSE IF StartsWith(url, "http://") THEN 7 ELSE 0
        stop   == Skip(url, scheme + 1, {"/", ":", "?", "#"}, TRUE)
    IN  IF scheme = 0 THEN "" ELSE Sub(url, scheme + 1, stop - 1)

RECURSIVE CountBy(_, _, _)
\* apiCalls.forEach(call => { counts[key(call)] = (counts[key(call)] || 0) + 1 })
\* for the calls that have a key, keys being the key of each call ("": none)
CountBy(counts, keys, i) ==
    IF i > Len(keys) THEN counts
    ELSE CountBy(IF keys[i] = "" THEN counts ELSE MapAdd(counts, keys[i], 1), keys, i + 1)

analyzeApiCallsReport(apiCalls) ==
    LET n == Len(apiCalls)
        apiTypes == CountBy(<<>>, [i \in 1..n |-> apiCalls[i].type], 1)
        methods  == CountBy(<<>>, [i \in 1..n |-> apiCalls[i].method], 1)
        domains  == CountBy(<<>>, [i \in 1..n |->
                        LET url == apiCalls[i].url
                        IN  IF url = "" THEN ""
                            ELSE IF HostName(url) # "" THEN HostName(url)
                            ELSE IF StartsWith(url, "/") THEN "relative" ELSE ""], 1)
    IN  [ totalApiCalls |-> n,
          apiTypes      |-> apiTypes,
          methods       |-> methods,
          domains       |-> domains,
          calls         |-> Slice(apiCalls, 20),
          hasSupabase   |-> MapHas(apiTypes, "supabase"),
          hasAxios      |-> MapHas(apiTypes, "axios"),
          hasFetch      |-> MapHas(apiTypes, "fetch") ]

-----------------------------------------------------------------------------
(* analyze_database_schema                                                 *)

\* match.slice(0, 200) + '...'
Preview(text) ==
    Sub(text, 1, Min(200, Len(text))) \o "..."

\* match.match(inner)?.[1] given the result m of the match
NameIn(text, m) ==
    IF m.end = 0 THEN "" ELSE Group(text, m, 1)

\* if (name) { push }: the declaration as <<[text, name]>>, or nothing
Named(text, name) ==
    IF name = "" THEN <<>> ELSE <<[text |-> text, name |-> name]>>

RECURSIVE NamedIn(_, _)
\* texts.forEach: for each matched text the first capture of inner in it
NamedIn(texts, inner) ==
    IF texts = <<>> THEN <<>>
    ELSE Named(Head(texts), NameIn(Head(texts), Search(inner, Head(texts), 1)))
         \o NamedIn(Tail(texts), inner)

\* content.match(re) for a /g expression, then for each matched text the
\* first capture of inner in it: [text, name] records
Declared(content, re, inner) ==
    NamedIn(MatchTexts(content, AllMatches(re, content, 1), 0), inner)

TableFacts(file, ds) ==
    [i \in 1..Len(ds) |->
        [name |-> ds[i].name, file |-> file, definition |-> Preview(ds[i].text)]]

TypeFacts(file, ds, kind) ==
    [i \in 1..Len(ds) |->
        [ name |-> ds[i].name, file |-> file, type |-> kind,
          definition |-> Preview(ds[i].text) ]]

PolicyFacts(file, content, ms) ==
    [i \in 1..Len(ms) |->
        [ name  |-> Group(content, ms[i], 1),
          table |-> Group(content, ms[i], 2),
          file  |-> file ]]

FunctionFacts(file, ds) ==
    [i \in 1..Len(ds) |-> [name |-> ds[i].name, file |-> file]]

RelationshipFacts(file, ds) ==
    [i \in 1..Len(ds) |-> [referencedTable |-> ds[i].name, file |-> file]]

SupabaseTypeFacts(file, ds) ==
    [i \in 1..Len(ds) |->
        [table |-> ds[i].name, file |-> file, context |-> "supabase_query"]]

\* what the first loop of analyzeDatabaseSchema pushes for one schema file
schemaOf(file, content) ==
    LET word    == Cls(WordChars, 1, Unbounded)
        word0   == Cls(WordChars, 0, Unbounded)
        marker  == AltI(<<"database", "table", "row", "insert", "update">>)
        kw(k)   == <<LitI(k), Spaces1>>
        table   == kw("create") \o kw("table") \o <<Cap(word, 1)>>
        policy  == kw("create") \o kw("policy") \o <<Cap(word, 1), Spaces1>> \o kw("on")
                   \o <<Cap(word, 2)>>
        func    == kw("create") \o <<Opt(kw("or") \o kw("replace"))>> \o kw("function")
                   \o <<Cap(word, 1)>>
        ref     == kw("references") \o <<Cap(word, 1)>>
        fromRe  == <<LitI("from"), Spaces0, Lit("("), Spaces0, Quote, Cap(word, 1), Quote,
                     Spaces0, Lit(")")>>
    IN  [ tables |->
            TableFacts(file,
              Declared(content,
                       table \o <<Spaces0, Lit("("), NotCls({")"}, 1, Unbounded), Lit(")")>>,
                       table)),
          types  |->
            TypeFacts(file,
              Declared(content,
                       kw("interface") \o <<word0, marker, word0, Spaces0, Lit("{"),
                                            NotCls({"}"}, 1, Unbounded), Lit("}")>>,
                       kw("interface") \o <<Cap(word, 1)>>),
              "interface")
            \o TypeFacts(file,
              Declared(content,
                       kw("type") \o <<word0, marker, word0, Spaces0, Lit("="),
                                       NotCls({";"}, 1, Unbounded)>>,
                       kw("type") \o <<Cap(word, 1)>>),
              "type"),
          policies |-> PolicyFacts(file, content, AllMatches(policy, content, 1)),
          functions |-> FunctionFacts(file, Declared(content, func, func)),
          relationships |->
            RelationshipFacts(file, Declared(content, ref \o <<Spaces0, Lit("(")>>, ref)),
          supabaseTypes |->
            IF Includes(content, "supabase") \/ Includes(content, "Database")
            THEN SupabaseTypeFacts(file,
                   Declared(content, fromRe, <<Quote, Cap(word, 1), Quote>>))
            ELSE <<>> ]

SupabaseUsageFacts(file, refs) ==
    [i \in 1..Len(refs) |-> [table |-> refs[i], file |-> file, operation |-> "query"]]

\* what the second loop of analyzeDatabaseSchema pushes for one code file
supabaseUsageOf(file, content) ==
    IF Includes(content, "supabase")
    THEN SupabaseUsageFacts(file,
           MatchTexts(content,
                      AllMatches(<<Lit(".from"), Spaces0, Lit("("), Spaces0, Quote,
                                   Cap(Cls(WordChars, 1, Unbounded), 1), Quote,
                                   Spaces0, Lit(")")>>,
                                 content, 1),
                      1))
    ELSE <<>>

\* the first loop's body: the arrays of schema and supabaseTypes grow
analyzeDatabaseSchemaStep(acc, found) ==
    [ acc EXCEPT !.tables        = @ \o found.tables,
                 !.types         = @ \o found.types,
                 !.policies      = @ \o found.policies,
                 !.functions     = @ \o found.functions,
                 !.relationships = @ \o found.relationships,
                 !.supabaseTypes = @ \o found.supabaseTypes ]

analyzeDatabaseSchemaReport(schemaFiles, acc) ==
    [ schemaFiles   |-> schemaFiles,
      totalFiles    |-> Len(schemaFiles),
      schema        |-> [ tables        |-> Slice(acc.tables, 20),
                          types         |-> Slice(acc.types, 20),
                          functions     |-> Slice(acc.functions, 10),
                          policies      |-> Slice(acc.policies, 10),
                          relationships |-> Slice(acc.relationships, 10) ],
      supabaseUsage |-> Slice(acc.supabaseUsage, 15),
      statistics    |-> [ totalTables        |-> Len(acc.tables),
                          totalTypes         |-> Len(acc.types),
                          totalFunctions     |-> Len(acc.functions),
                          totalPolicies      |-> Len(acc.policies),
                          totalRelationships |-> Len(acc.relationships),
                          supabaseReferences |-> Len(acc.supabaseUsage) ],
      hasSupabase   |-> Len(acc.supabaseUsage) > 0 \/ Len(acc.supabaseTypes) > 0,
      hasSQL        |-> \E i \in 1..Len(schemaFiles) : EndsWith(schemaFiles[i], ".sql"),
      hasTypeScript |-> \E i \in 1..Len(schemaFiles) : EndsWith(schemaFiles[i], ".ts") ]


-----------------------------------------------------------------------------
(* The project on disk.  A file is [path, content, readable]; the tree is  *)
(* the sequence of the files in the order fast-glob walks them.  The       *)
(* manifest package.json is [kind, ...]: "absent", "unreadable", "invalid" *)
(* (no JSON text), "null" (the JSON text null) or "object".                *)

BaseFiles ==
    << [ path    |-> "src/App.tsx",
         content |-> "export default function App() { useEffect(load); return <Route path=\"/home\"><div className=\"flex p-4 md:p-8\"/></Route> }" ],
       [ path    |-> "src/hooks/useAuth.ts",
         content |-> "export const useAuth = () => { useEffect(sync); useState(0); return supabase.from('users') }" ],
       [ path    |-> "src/components/Card.jsx",
         content |-> "const Card = (props) => <div class='p-4 flex text-lg'>{fetch('/api/cards')}</div>" ],
       [ path    |-> "src/routes.js",
         content |-> "export const routes = [{ path: '/login', auth: true }, { path: '/' }]; axios.get('https://api.example.com/me')" ],
       [ path    |-> "supabase/migrations/001_init.sql",
         content |-> "CREATE TABLE todos (id int REFERENCES users(id)); CREATE POLICY own ON todos; CREATE FUNCTION touch()" ],
       [ path    |-> "src/types/database.ts",
         content |-> "export interface TodoRow { id: number } export type TodoInsert = Partial<TodoRow>; supabase.from('todos')" ],
       [ path    |-> "node_modules/react/index.js",
         content |-> "export default function useState() {}" ],
       [ path    |-> "README.md",
         content |-> "# demo" ] >>

\* files whose classes and hooks recur from file to file
RankFiles ==
    << [ path    |-> "src/rank/a.tsx",
         content |-> "useA(); useState(); <i className=\"x y\"/>" ],
       [ path    |-> "src/rank/b.tsx",
         content |-> "useB(); useA(); <b class='z y'/> <i className=\"y x\"/>" ],
       [ path    |-> "src/rank/c.tsx",
         content |-> "useEffect(); useState(); useC(); <i className=\"w z\"/>" ],
       [ path    |-> "src/rank/d.tsx",
         content |-> "useA(); useC(); useC(); <i className={on ? 'x' : 'v'} class=\"w\"/>" ] >>

\* the files of a large project: pages
MaxPages ==
    22

\* migrations
MaxMigrations ==
    21

\* type files: with the pages, more than fifty source files
MaxTypes ==
    29

\* other files
MaxDocs ==
    32

\* a page with a route, a hook, calls and two classes, layout and text
\* classes in the first fifteen pages and responsive classes in the others
PageFile(i) ==
    LET n == ToString(i)
        classes == IF i <= 15 THEN "p-" \o n \o " text-" \o n
                   ELSE "md:p-" \o n \o " lg:p-" \o n
    IN  [ path    |-> "src/pages/routes" \o n \o ".tsx",
          content |-> "export default function Page" \o n \o "() { useItem" \o n
                      \o "(); fetch('/api/items/" \o n \o "'); supabase.from('t" \o n
                      \o "'); return <Route path=\"/p" \o n \o "\"><div className=\""
                      \o classes \o "\"/></Route> }" ]

TypeFile(i) ==
    [ path    |-> "src/types/database" \o ToString(i) \o ".ts",
      content |-> "export interface Row" \o ToString(i) \o " { id: number }" ]

MigrationFile(i) ==
    LET n == ToString(i)
    IN  [ path    |-> "supabase/migrations/" \o n \o "_init.sql",
          content |-> "CREATE TABLE t" \o n \o " (id int REFERENCES u" \o n
                      \o "(id)); CREATE POLICY own" \o n \o " ON t" \o n
                      \o "; CREATE FUNCTION touch" \o n \o "()" ]

DocFile(i) ==
    [ path |-> "docs/" \o ToString(i) \o ".md", content |-> "# note" ]

\* files under the directories the enumerations leave out, at the root and
\* deeper, and files whose names only begin like those directories
DirFiles ==
    << [ path    |-> "dist/assets/index.js",
         content |-> "fetch('/api/dist')" ],
       [ path    |-> "packages/web/build/static/main.tsx",
         content |-> "export default function Main() { return <div className=\"p-1\"/> }" ],
       [ path    |-> "packages/web/node_modules/lodash/index.js",
         content |-> "useState(0)" ],
       [ path    |-> ".git/hooks/update.js",
         content |-> "useEffect(run)" ],
       [ path    |-> "vendor/lib/.git/index.tsx",
         content |-> "const Index = () => <a class='flex'/>" ],
       [ path    |-> "supabase/dist/schema.sql",
         content |-> "CREATE TABLE built (id int)" ],
       [ path    |-> "src/distribution/main.ts",
         content |-> "useStateful(); reuseState(); useState(1); useState(2); useItem(); useless(); axios.get('/api/main'); const routes = [{ path: '/main' }]" ],
       [ path    |-> "src/builder/index.tsx",
         content |-> "// by the Authors\nexport const Builder = () => { useItem(); useId(); useStateful(); return <div className=\"flex\"><Route path=\"/b\"/></div> }" ],
       [ path    |-> "supabase/schema.sql",
         content |-> "CREATE TABLE kept (id int)" ] >>

LargeFiles ==
    [i \in 1..MaxPages |-> PageFile(i)]
    \o [i \in 1..MaxTypes |-> TypeFile(i)]
    \o [i \in 1..MaxMigrations |-> MigrationFile(i)]
    \o [i \in 1..MaxDocs |-> DocFile(i)]

PoolFiles ==
    BaseFiles \o RankFiles \o LargeFiles \o DirFiles

PoolPaths ==
    Range(Paths(PoolFiles))

ContentOf ==
    [p \in PoolPaths |-> (CHOOSE f \in Range(PoolFiles) : f.path = p).content]

\* the enumerations each file of the pool is a result of
KindsOf ==
    [p \in PoolPaths |-> { k \in GlobKinds : Matches(p, k) }]

\* await fg(...) on a readable tree: the matching paths in traversal order
Glob(tree, kind) ==
    LET all == Paths(tree)
    IN  Filter(all, { p \in Range(all) : kind \in KindsOf[p] })

\* the file loops: the loop of each tool, and the second loop of
\* analyzeDatabaseSchema
Loops ==
    { "get_components", "get_routing_structure", "get_tailwind_usage",
      "get_hooks_usage", "analyze_api_calls", "analyze_database_schema",
      "supabaseUsage" }

\* what the body of a file loop extracts from the content of a file
Found(loop, file, content) ==
    CASE loop = "get_components"          -> componentOf(file, content)
      [] loop = "get_routing_structure"   -> routesOf(file, content, 1)
      [] loop = "get_tailwind_usage"      -> classNamesOf(content)
      [] loop = "get_hooks_usage"         -> hooksOf(content)
      [] loop = "analyze_api_calls"       -> apiCallsOf(file, content)
      [] loop = "analyze_database_schema" -> schemaOf(file, content)
      [] loop = "supabaseUsage"           -> supabaseUsageOf(file, content)

\* what each loop extracts from each of the small files
Extracted ==
    [loop \in Loops |-> [p \in Range(Paths(BaseFiles \o RankFiles)) |->
                            Found(loop, p, ContentOf[p])]]

\* what the body of a file loop extracts from a file of the pool
FoundIn(loop, file) ==
    IF file \in DOMAIN Extracted[loop] THEN Extracted[loop][file]
    ELSE Found(loop, file, ContentOf[file])


-----------------------------------------------------------------------------
(* Requests.  A request is [name, scheme, args]: a tool call by name, a    *)
(* resource read by URI or a prompt by name.                               *)

ToolNames ==
    {"analyze_project", "get_components", "get_routing_structure", "analyze_dependencies",
     "get_tailwind_usage", "get_hooks_usage", "analyze_api_calls", "analyze_database_schema"}

ResourceUris ==
    {"project://structure", "project://package", "project://components", "project://routes"}

PromptNames ==
    {"code_review", "refactor_suggest", "performance_audit"}

\* Routine with the components and routes cases of readProjectResource
\* exchanged
RoutineExchanged(r) ==
    CASE r.scheme = "tool" /\ r.name \in ToolNames -> r.name
      [] r.scheme = "resource" ->
            LET resourceId == RemoveFirst(r.name, "project://")
            IN  CASE resourceId = "components" -> "get_routing_structure"
                  [] resourceId = "routes"     -> "get_components"
                  [] resourceId \in {"structure", "package"} -> resourceId
                  [] OTHER -> "unknown"
      [] r.scheme = "prompt" /\ r.name \in PromptNames -> "prompt"
      [] OTHER -> "unknown"

\* the function that serves a request: a tool's own function, the function
\* a resource delegates to, "structure" and "package" for the two cases
\* readProjectResource computes itself, "prompt" for getPrompt, and
\* "unknown" for the default case of a switch
Routine(r) ==
    CASE r.scheme = "tool" /\ r.name \in ToolNames -> r.name
      [] r.scheme = "resource" ->
            LET resourceId == RemoveFirst(r.name, "project://")
            IN  CASE resourceId = "components" -> "get_components"
                  [] resourceId = "routes"     -> "get_routing_structure"
                  [] resourceId \in {"structure", "package"} -> resourceId
                  [] OTHER -> "unknown"
      [] r.scheme = "prompt" /\ r.name \in PromptNames -> "prompt"
      [] OTHER -> "unknown"

\* the enumeration a routine starts with
EnumKind(routine) ==
    CASE routine = "get_components"          -> "component"
      [] routine = "get_routing_structure"   -> "routing"
      [] routine = "analyze_database_schema" -> "schema"
      [] routine = "structure"               -> "structure"
      [] OTHER                               -> "source"

\* Scanned without the slices: the file loop reads every file
ScannedAll(routine, files) ==
    files

\* the files of an enumeration that the file loop reads
Scanned(routine, files) ==
    CASE routine = "get_components" -> Slice(files, 20)
      [] routine \in {"get_tailwind_usage", "get_hooks_usage", "analyze_api_calls"} ->
            Slice(files, 50)
      [] OTHER -> files

\* the accumulators a routine declares before its file loop
EmptyAcc(routine) ==
    CASE routine = "get_tailwind_usage" -> [classUsage |-> <<>>, fileUsage |-> <<>>]
      [] routine = "get_hooks_usage" ->
            [hookUsage |-> <<>>, customHooks |-> <<>>, fileUsage |-> <<>>]
      [] routine = "analyze_database_schema" ->
            [ tables |-> <<>>, types |-> <<>>, functions |-> <<>>, policies |-> <<>>,
              relationships |-> <<>>, supabaseTypes |-> <<>>, supabaseUsage |-> <<>>,
              schemaFiles |-> <<>> ]
      [] routine = "analyze_project" -> [packageInfo |-> [kind |-> "none"]]
      [] OTHER -> [facts |-> <<>>]

\* one pass of a routine's file loop over a file that was read, found
\* being what the body extracts from the file
LoopBody(routine, acc, file, found) ==
    CASE routine = "get_components"          -> [facts |-> Append(acc.facts, found)]
      [] routine = "get_routing_structure"   -> [facts |-> acc.facts \o found]
      [] routine = "get_tailwind_usage"      -> getTailwindUsageStep(acc, file, found)
      [] routine = "get_hooks_usage"         -> getHooksUsageStep(acc, file, found)
      [] routine = "analyze_api_calls"       -> [facts |-> acc.facts \o found]
      [] routine = "analyze_database_schema" -> analyzeDatabaseSchemaStep(acc, found)

\* the object a routine returns after its (last) file loop
ReportOf(routine, files, acc) ==
    CASE routine = "get_components"          -> getComponentsReport(files, acc.facts)
      [] routine = "get_routing_structure"   -> getRoutingStructureReport(files, acc.facts)
      [] routine = "get_tailwind_usage"      -> getTailwindUsageReport(files, acc)
      [] routine = "get_hooks_usage"         -> getHooksUsageReport(files, acc)
      [] routine = "analyze_api_calls"       -> analyzeApiCallsReport(acc.facts)
      [] routine = "analyze_database_schema" -> analyzeDatabaseSchemaReport(acc.schemaFiles, acc)
      [] routine = "structure" ->
            [ totalFiles  |-> Len(files),
              files       |-> Slice(files, 100),
              directories |-> LET firsts == Dedup([i \in 1..Len(files) |->
                                                     Segments(files[i])[1]])
                              IN  Filter(firsts, Range(firsts) \ {""}) ]

\* error.message of what fg and readFile throw
EnumError ==
    "EACCES: permission denied, scandir '" \o resolvedPath \o "'"

ReadError(file) ==
    "EACCES: permission denied, open '" \o resolvedPath \o "/" \o file \o "'"

\* JSON.stringify({ error: message }, null, 2)
ErrorPayload(message) ==
    [json |-> [error |-> message]]

\* ${args[key]}
ArgText(args, key) ==
    IF MapHas(args, key) THEN (CHOOSE e \in Range(args) : e[1] = key)[2] ELSE "undefined"

\* the text of the message getPrompt returns (its first sentence)
getPrompt(name, args) ==
    CASE name = "code_review" ->
            "Please review the React component at " \o ArgText(args, "component_path")
            \o " and provide suggestions for improvements."
      [] name = "refactor_suggest" ->
            "Analyze the file at " \o ArgText(args, "file_path")
            \o " and suggest refactoring improvements."
      [] name = "performance_audit" ->
            "Perform a performance audit on the component \"" \o ArgText(args, "component_name")
            \o "\"."


-----------------------------------------------------------------------------
(* The server.  Each slot holds one invocation of a request handler; an    *)
(* invocation runs from one await to the next in one step.                 *)

\* files on disk, of the pool
MaxFiles ==
    2

\* unreadable files among them
MaxUnreadable ==
    1

\* invocations in flight at once
MaxInFlight ==
    2

\* responses delivered before the clock stops being counted
MaxDelivered ==
    2

VARIABLES
    project,    \* the disk: [tree, manifest, enumOK]
    pc,         \* per slot: "idle", the await the invocation is suspended at, or "done"
    req,        \* per slot: the request being served
    loc,        \* per slot: the local variables of the invocation
    out,        \* per slot: what the handler returned or threw
    overlap,    \* per slot: whether another invocation ran while this one did
    now         \* the clock: the responses delivered so far

vars ==
    <<project, pc, req, loc, out, overlap, now>>

Slots ==
    1..MaxInFlight

Manifests ==
    { [kind |-> "absent"], [kind |-> "unreadable"], [kind |-> "invalid"], [kind |-> "null"],
      [ kind |-> "object", name |-> "demo", version |-> "1.0.0",
        dependencies    |-> << [name |-> "react", version |-> "18.0.0"],
                               [name |-> "@supabase/supabase-js", version |-> "2.0.0"] >>,
        devDependencies |-> <<>> ],
      [ kind |-> "object", name |-> "", version |-> "",
        dependencies    |-> << [name |-> "react-router-dom", version |-> "6.0.0"],
                               [name |-> "uuid", version |-> "9.0.0"] >>,
        devDependencies |-> << [name |-> "react", version |-> "18.0.0"],
                               [name |-> "vite", version |-> "5.0.0"],
                               [name |-> "typescript", version |-> "5.0.0"] >> ] }

\* the sub-sequences of the pool of at most MaxFiles files, at most
\* MaxUnreadable of them unreadable
Trees ==
    LET n == Len(BaseFiles)
        picks == { S \in SUBSET (1..n) : Cardinality(S) <= MaxFiles }
        order(S) == Filter([i \in 1..n |-> i], S)
    IN  { [k \in 1..Cardinality(S) |->
              [ path     |-> BaseFiles[order(S)[k]].path,
                readable |-> order(S)[k] \notin U ]] :
          <<S, U>> \in { <<S, U>> \in picks \X picks :
                            U \subseteq S /\ Cardinality(U) <= MaxUnreadable } }

\* an enumeration fails as a whole (an unreadable directory) or walks the tree
Projects ==
    { [tree |-> t, manifest |-> m, enumOK |-> TRUE] : t \in Trees, m \in Manifests }
    \cup { [tree |-> <<>>, manifest |-> m, enumOK |-> FALSE] : m \in Manifests }

PromptArgs ==
    <<<<"component_path", "src/App.tsx">>>>

Requests ==
    { [name |-> n, scheme |-> "tool", args |-> <<>>] : n \in ToolNames \cup {"deploy"} }
    \cup { [name |-> u, scheme |-> "resource", args |-> <<>>] :
              u \in ResourceUris \cup {"project://secrets"} }
    \cup { [name |-> n, scheme |-> "prompt", args |-> PromptArgs] :
              n \in PromptNames \cup {"explain"} }

\* the routine of each request
RoutineOf ==
    [r \in Requests |-> Routine(r)]

NoRequest ==
    [name |-> "", scheme |-> "none", args |-> <<>>]

NoLocals ==
    [files |-> <<>>, i |-> 0, acc |-> [facts |-> <<>>]]

NoOutcome ==
    [how |-> "none", isError |-> FALSE, text |-> [plain |-> ""]]

Init ==
    /\ project \in Projects
    /\ pc = [s \in Slots |-> "idle"]
    /\ req = [s \in Slots |-> NoRequest]
    /\ loc = [s \in Slots |-> NoLocals]
    /\ out = [s \in Slots |-> NoOutcome]
    /\ overlap = [s \in Slots |-> FALSE]
    /\ now = 0

\* the handler returns: { content: [{ type: 'text', text }] } of a tool
\* call, { contents: [{ uri, mimeType, text }] } of a resource read
Returned(text) ==
    [how |-> "return", isError |-> FALSE, text |-> text]

\* an async function throws and nothing catches: the handler's promise
\* rejects with the error
Raised(message) ==
    [how |-> "raise", isError |-> TRUE, text |-> [plain |-> message]]

\* a routine throws error: the tool functions catch it and return the error
\* payload; readProjectResource and its handler have no catch around the
\* structure case
Thrown(routine, message) ==
    IF routine = "structure" THEN Raised(message) ELSE Returned(ErrorPayload(message))

\* the default case of the switch on the name throws: the tool handler
\* catches the error and returns it with isError; readProjectResource and
\* getPrompt throw it out of their handlers, which have no catch
Unknown(r) ==
    IF r.scheme = "tool"
    THEN [ how |-> "return", isError |-> TRUE,
           text |-> [plain |-> "Error: Unknown tool: " \o r.name] ]
    ELSE IF r.scheme = "resource"
    THEN Raised("Unknown resource: " \o RemoveFirst(r.name, "project://"))
    ELSE Raised("Unknown prompt: " \o r.name)

\* analyzeDependencies taking a manifest that cannot be read for an empty one
DependenciesOrNone(m) ==
    IF m.kind \in {"absent", "unreadable"}
    THEN Returned([json |-> analyzeDependenciesReport(
                      [ kind |-> "object", name |-> "", version |-> "",
                        dependencies |-> <<>>, devDependencies |-> <<>> ])])
    ELSE Returned(CASE m.kind = "invalid" -> ErrorPayload("No package.json found")
                    [] m.kind = "null" ->
                         ErrorPayload("Cannot read properties of null (reading 'dependencies')")
                    [] OTHER -> [json |-> analyzeDependenciesReport(m)])

\* what analyzeDependencies returns for the manifest m
Dependencies(m) ==
    Returned(CASE m.kind \in {"absent", "unreadable", "invalid"} ->
                    ErrorPayload("No package.json found")
               [] m.kind = "null" ->
                    ErrorPayload("Cannot read properties of null (reading 'dependencies')")
               [] OTHER -> [json |-> analyzeDependenciesReport(m)])

\* what the package case of readProjectResource returns for the manifest m
Package(m) ==
    Returned(IF m.kind \in {"absent", "unreadable"}
             THEN ErrorPayload("No package.json found")
             ELSE [raw |-> m])

\* every other slot with an invocation in flight
Others(s) ==
    { t \in Slots \ {s} : pc[t] \notin {"idle", "done"} }

\* the invocation of slot s ends with outcome o
Finish(s, o) ==
    /\ pc' = [pc EXCEPT ![s] = "done"]
    /\ out' = [out EXCEPT ![s] = o]

Suspend(s, at) ==
    /\ pc' = [pc EXCEPT ![s] = at]
    /\ UNCHANGED out

\* a handler that keeps the accumulators of the request served before
StartKeeping(s, r) ==
    /\ pc[s] = "idle"
    /\ req' = [req EXCEPT ![s] = r]
    /\ loc' = [loc EXCEPT ![s] = [ files |-> <<>>, i |-> 0,
                                   acc |-> IF DOMAIN loc[s].acc = DOMAIN EmptyAcc(RoutineOf[r])
                                           THEN loc[s].acc
                                           ELSE EmptyAcc(RoutineOf[r]) ]]
    /\ overlap' = [t \in Slots |-> IF t = s THEN Others(s) # {}
                                   ELSE overlap[t] \/ pc[t] \notin {"idle", "done"}]
    /\ CASE RoutineOf[r] = "unknown" ->
              Finish(s, Unknown(r))
         [] RoutineOf[r] = "prompt" ->
              Finish(s, Returned([plain |-> getPrompt(r.name, r.args)]))
         [] RoutineOf[r] \in {"analyze_project", "analyze_dependencies", "package"} ->
              Suspend(s, "manifest")
         [] OTHER ->
              Suspend(s, "enum")
    /\ UNCHANGED <<project, now>>

\* a request arrives and its handler runs to its first await: the switch on
\* the name, the declarations before the first await
Start(s, r) ==
    /\ pc[s] = "idle"
    /\ req' = [req EXCEPT ![s] = r]
    /\ loc' = [loc EXCEPT ![s] = [files |-> <<>>, i |-> 0, acc |-> EmptyAcc(RoutineOf[r])]]
    /\ overlap' = [t \in Slots |-> IF t = s THEN Others(s) # {}
                                   ELSE overlap[t] \/ pc[t] \notin {"idle", "done"}]
    /\ CASE RoutineOf[r] = "unknown" ->
              Finish(s, Unknown(r))
         [] RoutineOf[r] = "prompt" ->
              Finish(s, Returned([plain |-> getPrompt(r.name, r.args)]))
         [] RoutineOf[r] \in {"analyze_project", "analyze_dependencies", "package"} ->
              Suspend(s, "manifest")
         [] OTHER ->
              Suspend(s, "enum")
    /\ UNCHANGED <<project, now>>

\* JSON.parse of the manifest text; null when there is no text to parse
Parsed(manifest) ==
    IF manifest.kind = "object" THEN manifest ELSE [kind |-> "none"]

\* await readFile(packageJsonPath) settles
ReadManifest(s) ==
    /\ pc[s] = "manifest"
    /\ CASE RoutineOf[req[s]] = "analyze_project" ->
              /\ loc' = [loc EXCEPT ![s].acc = [packageInfo |-> Parsed(project.manifest)]]
              /\ Suspend(s, "enum")
         [] RoutineOf[req[s]] = "analyze_dependencies" ->
              /\ UNCHANGED loc
              /\ Finish(s, Dependencies(project.manifest))
         [] RoutineOf[req[s]] = "package" ->
              /\ UNCHANGED loc
              /\ Finish(s, Package(project.manifest))
    /\ UNCHANGED <<project, req, overlap, now>>

\* what the routine does after its file loop, given the locals l
AfterLoop(s, routine, l) ==
    IF routine = "analyze_database_schema"
    THEN /\ loc' = [loc EXCEPT ![s] = l]
         /\ Suspend(s, "enum2")
    ELSE /\ loc' = [loc EXCEPT ![s] = l]
         /\ Finish(s, Returned([json |-> ReportOf(routine, l.files, l.acc)]))

\* an enumeration that gives no file taken for a failure
AfterEnumerateSome(s, routine, files) ==
    IF files = <<>>
    THEN /\ UNCHANGED loc
         /\ Finish(s, Thrown(routine, "No files found"))
    ELSE IF routine = "analyze_project"
    THEN /\ loc' = [loc EXCEPT ![s] = [files |-> files, i |-> 1, acc |-> loc[s].acc]]
         /\ Finish(s, Returned([json |->
                 analyzeProjectReport(loc[s].acc.packageInfo, files, now)]))
    ELSE IF routine = "structure"
    THEN AfterLoop(s, routine, [files |-> files, i |-> 1, acc |-> loc[s].acc])
    ELSE /\ loc' = [loc EXCEPT ![s] =
                      [ files |-> files, i |-> 1,
                        acc |-> IF routine = "analyze_database_schema"
                                THEN [loc[s].acc EXCEPT !.schemaFiles = files]
                                ELSE loc[s].acc ]]
         /\ Suspend(s, "read")

\* the locals after the first enumeration gave files
Enumerated(s, routine, files) ==
    [ files |-> files, i |-> 1,
      acc |-> IF routine = "analyze_database_schema"
              THEN [loc[s].acc EXCEPT !.schemaFiles = files]
              ELSE loc[s].acc ]

\* the routine goes on with the files the enumeration gave
AfterEnumerate(s, routine, files) ==
    IF routine = "analyze_project"
    THEN /\ loc' = [loc EXCEPT ![s] = Enumerated(s, routine, files)]
         /\ Finish(s, Returned([json |->
                 analyzeProjectReport(loc[s].acc.packageInfo, files, now)]))
    ELSE IF routine = "structure" \/ Scanned(routine, files) = <<>>
    THEN AfterLoop(s, routine, Enumerated(s, routine, files))
    ELSE /\ loc' = [loc EXCEPT ![s] = Enumerated(s, routine, files)]
         /\ Suspend(s, "read")

\* await fg(...) settles: the first enumeration of the routine
Enumerate(s) ==
    /\ pc[s] = "enum"
    /\ IF ~project.enumOK
       THEN /\ UNCHANGED loc
            /\ Finish(s, Thrown(RoutineOf[req[s]], EnumError))
       ELSE AfterEnumerate(s, RoutineOf[req[s]],
                           Glob(project.tree, EnumKind(RoutineOf[req[s]])))
    /\ UNCHANGED <<project, req, overlap, now>>

Readable(file) ==
    \E i \in 1..Len(project.tree) :
        project.tree[i].path = file /\ project.tree[i].readable

\* the loop goes on after a pass left the locals l, n being the number of
\* files it scans
AfterPass(s, routine, n, l) ==
    IF loc[s].i = n
    THEN AfterLoop(s, routine, l)
    ELSE /\ loc' = [loc EXCEPT ![s] = l]
         /\ Suspend(s, "read")

\* a file loop whose accumulators are shared by the invocations of the
\* routine in flight
AfterReadShared(s, routine, n, file) ==
    IF ~Readable(file)
    THEN /\ UNCHANGED loc
         /\ Finish(s, Thrown(routine, ReadError(file)))
    ELSE AfterPass(s, routine, n,
                   [loc[s] EXCEPT
                      !.acc = LoopBody(routine,
                                       IF \E t \in Others(s) : RoutineOf[req[t]] = routine
                                       THEN loc[CHOOSE t \in Others(s) :
                                                  RoutineOf[req[t]] = routine].acc
                                       ELSE @,
                                       file, FoundIn(routine, file)),
                      !.i = @ + 1])

\* await readFile(fullPath) settles for the file the loop is at
AfterRead(s, routine, n, file) ==
    IF ~Readable(file)
    THEN /\ UNCHANGED loc
         /\ Finish(s, Thrown(routine, ReadError(file)))
    ELSE AfterPass(s, routine, n,
                   [loc[s] EXCEPT !.acc = LoopBody(routine, @, file,
                                                   FoundIn(routine, file)),
                                  !.i = @ + 1])

\* await readFile(fullPath) settles in the (first) file loop
ReadFile(s) ==
    /\ pc[s] = "read"
    /\ AfterRead(s, RoutineOf[req[s]],
                 Len(Scanned(RoutineOf[req[s]], loc[s].files)),
                 Scanned(RoutineOf[req[s]], loc[s].files)[loc[s].i])
    /\ UNCHANGED <<project, req, overlap, now>>

\* the second loop is over, or goes on, after a pass left the locals l
AfterPass2(s, files, l) ==
    /\ loc' = [loc EXCEPT ![s] = l]
    /\ IF loc[s].i = Len(files)
       THEN Finish(s, Returned([json |->
                ReportOf("analyze_database_schema", files, l.acc)]))
       ELSE Suspend(s, "read2")

\* analyzeDatabaseSchema goes on with the code files the second
\* enumeration gave
AfterEnumerate2(s, codeFiles) ==
    /\ loc' = [loc EXCEPT ![s] = [@ EXCEPT !.files = codeFiles, !.i = 1]]
    /\ IF codeFiles = <<>>
       THEN Finish(s, Returned([json |->
                ReportOf("analyze_database_schema", codeFiles, loc[s].acc)]))
       ELSE Suspend(s, "read2")

\* analyzeDatabaseSchema: await fg(...) for the code files settles
Enumerate2(s) ==
    /\ pc[s] = "enum2"
    /\ IF ~project.enumOK
       THEN /\ UNCHANGED loc
            /\ Finish(s, Thrown("analyze_database_schema", EnumError))
       ELSE AfterEnumerate2(s, Glob(project.tree, "source"))
    /\ UNCHANGED <<project, req, overlap, now>>

\* await readFile(fullPath) settles for the file the second loop is at
AfterRead2(s, files, file) ==
    IF ~Readable(file)
    THEN /\ UNCHANGED loc
         /\ Finish(s, Thrown("analyze_database_schema", ReadError(file)))
    ELSE AfterPass2(s, files,
                    [loc[s] EXCEPT !.acc.supabaseUsage =
                                       @ \o FoundIn("supabaseUsage", file),
                                   !.i = @ + 1])

\* analyzeDatabaseSchema: await readFile(fullPath) settles in the second loop
ReadFile2(s) ==
    /\ pc[s] = "read2"
    /\ AfterRead2(s, Slice(loc[s].files, 30), Slice(loc[s].files, 30)[loc[s].i])
    /\ UNCHANGED <<project, req, overlap, now>>

\* the transport sends the response (or the error) of slot s
Deliver(s) ==
    /\ pc[s] = "done"
    /\ pc' = [pc EXCEPT ![s] = "idle"]
    /\ out' = [out EXCEPT ![s] = NoOutcome]
    /\ req' = [req EXCEPT ![s] = NoRequest]
    /\ overlap' = [overlap EXCEPT ![s] = FALSE]
    /\ now' = Min(now + 1, MaxDelivered)
    /\ UNCHANGED <<project, loc>>

Step(s) ==
    \/ \E r \in Requests : Start(s, r)
    \/ ReadManifest(s)
    \/ Enumerate(s)
    \/ ReadFile(s)
    \/ Enumerate2(s)
    \/ ReadFile2(s)
    \/ Deliver(s)

\* the requests are served one after the other
Next ==
    Step(1)

Spec ==
    Init /\ [][Next]_vars

-----------------------------------------------------------------------------
(* analyze_dependencies over manifests whose dependency objects are drawn  *)
(* from names that several rules of categorizePackage match                *)

\* entries of a dependency object
MaxDeps ==
    2

DepNames ==
    { "react-router-dom", "uuid", "@reach/router", "styled-components", "vitest",
      "left-pad" }

DepVersions ==
    {"1.0.0", "^2.3.4"}

\* the dependency objects of at most n entries with distinct names
DepObjects(n) ==
    { d \in UNION { [1..k -> [name : DepNames, version : DepVersions]] : k \in 0..n } :
        \A i, j \in 1..Len(d) : i # j => d[i].name # d[j].name }

DepsProjects ==
    { [ tree |-> <<>>, enumOK |-> TRUE,
        manifest |-> [ kind |-> "object", name |-> "app", version |-> "0.1.0",
                       dependencies |-> d, devDependencies |-> e ] ] :
      d \in DepObjects(MaxDeps), e \in DepObjects(1) }

InitDeps ==
    /\ project \in DepsProjects
    /\ pc = [s \in Slots |-> "idle"]
    /\ req = [s \in Slots |-> NoRequest]
    /\ loc = [s \in Slots |-> NoLocals]
    /\ out = [s \in Slots |-> NoOutcome]
    /\ overlap = [s \in Slots |-> FALSE]
    /\ now = 0

\* tool calls of analyze_dependencies, served one after the other
NextDeps ==
    \/ Start(1, [name |-> "analyze_dependencies", scheme |-> "tool", args |-> <<>>])
    \/ ReadManifest(1)
    \/ Deliver(1)

SpecDeps ==
    InitDeps /\ [][NextDeps]_vars

-----------------------------------------------------------------------------
(* get_tailwind_usage and get_hooks_usage over trees that hold the files   *)
(* of RankFiles in any order                                               *)

\* files of a tree
MaxRankFiles ==
    3

RankTrees ==
    { t \in UNION { [1..k -> Range(Paths(RankFiles))] : k \in 0..MaxRankFiles } :
        \A i, j \in 1..Len(t) : i # j => t[i] # t[j] }

RankProjects ==
    { [ tree |-> [i \in 1..Len(t) |-> [path |-> t[i], readable |-> TRUE]],
        manifest |-> [kind |-> "absent"], enumOK |-> TRUE ] : t \in RankTrees }

InitRank ==
    /\ project \in RankProjects
    /\ pc = [s \in Slots |-> "idle"]
    /\ req = [s \in Slots |-> NoRequest]
    /\ loc = [s \in Slots |-> NoLocals]
    /\ out = [s \in Slots |-> NoOutcome]
    /\ overlap = [s \in Slots |-> FALSE]
    /\ now = 0

\* tool calls of the two rankings, served one after the other
NextRank ==
    \/ \E name \in {"get_tailwind_usage", "get_hooks_usage"} :
          Start(1, [name |-> name, scheme |-> "tool", args |-> <<>>])
    \/ Enumerate(1)
    \/ ReadFile(1)
    \/ Deliver(1)

SpecRank ==
    InitRank /\ [][NextRank]_vars

-----------------------------------------------------------------------------
(* Every request over a large project, walked in either direction          *)

Reverse(xs) ==
    [i \in 1..Len(xs) |-> xs[Len(xs) + 1 - i]]

LargeProjects ==
    { [ tree |-> [i \in 1..Len(t) |-> [path |-> t[i], readable |-> TRUE]],
        manifest |-> [kind |-> "absent"], enumOK |-> TRUE ] :
      t \in {Paths(LargeFiles), Reverse(Paths(LargeFiles)), Paths(BaseFiles)} }

InitLarge ==
    /\ project \in LargeProjects
    /\ pc = [s \in Slots |-> "idle"]
    /\ req = [s \in Slots |-> NoRequest]
    /\ loc = [s \in Slots |-> NoLocals]
    /\ out = [s \in Slots |-> NoOutcome]
    /\ overlap = [s \in Slots |-> FALSE]
    /\ now = MaxDelivered

SpecLarge ==
    InitLarge /\ [][Next]_vars

-----------------------------------------------------------------------------
(* Every request over projects with files under the ignored directories    *)

\* files of a project
MaxDirFiles ==
    2

\* the sub-sequences of DirFiles of at most MaxDirFiles files
DirTrees ==
    LET n == Len(DirFiles)
        order(S) == Filter([i \in 1..n |-> i], S)
    IN  { [k \in 1..Cardinality(S) |->
              [path |-> DirFiles[order(S)[k]].path, readable |-> TRUE]] :
          S \in { S \in SUBSET (1..n) : Cardinality(S) <= MaxDirFiles } }

DirProjects ==
    { [tree |-> t, manifest |-> [kind |-> "absent"], enumOK |-> TRUE] : t \in DirTrees }

InitDirs ==
    /\ project \in DirProjects
    /\ pc = [s \in Slots |-> "idle"]
    /\ req = [s \in Slots |-> NoRequest]
    /\ loc = [s \in Slots |-> NoLocals]
    /\ out = [s \in Slots |-> NoOutcome]
    /\ overlap = [s \in Slots |-> FALSE]
    /\ now = MaxDelivered

SpecDirs ==
    InitDirs /\ [][Next]_vars

-----------------------------------------------------------------------------
(* Requests that overlap                                                   *)

\* the projects the overlapping invocations are explored on: MaxFiles files
\* with classes, hooks and calls, or a directory that cannot be walked
ConcProjects ==
    { p \in Projects :
        \/ ~p.enumOK /\ p.manifest.kind = "absent"
        \/ /\ p.enumOK
           /\ p.manifest.kind = "object" /\ p.manifest.name = "demo"
           /\ Len(p.tree) = MaxFiles
           /\ \A i \in 1..Len(p.tree) :
                 p.tree[i].path \in {"src/App.tsx", "src/hooks/useAuth.ts",
                                     "src/components/Card.jsx"} }

InitConc ==
    /\ project \in ConcProjects
    /\ pc = [s \in Slots |-> "idle"]
    /\ req = [s \in Slots |-> NoRequest]
    /\ loc = [s \in Slots |-> NoLocals]
    /\ out = [s \in Slots |-> NoOutcome]
    /\ overlap = [s \in Slots |-> FALSE]
    /\ now = 0

\* the invocations overlap
NextConc ==
    \E s \in Slots : Step(s)

SpecConc ==
    InitConc /\ [][NextConc]_vars


-----------------------------------------------------------------------------
(* A request served alone: what its handler returns when no other request  *)
(* was served before it and none is in flight, as one fold over the files  *)

ReadableIn(tree, file) ==
    \E i \in 1..Len(tree) : tree[i].path = file /\ tree[i].readable

\* the first of files that cannot be read, "" when all can
FirstUnreadable(tree, files) ==
    IF \A i \in 1..Len(files) : ReadableIn(tree, files[i]) THEN ""
    ELSE files[Least({ i \in 1..Len(files) : ~ReadableIn(tree, files[i]) })]

RECURSIVE Passes(_, _, _, _)
\* the accumulators after the passes of the file loop over files from i on
Passes(routine, acc, files, i) ==
    IF i > Len(files) THEN acc
    ELSE Passes(routine,
                LoopBody(routine, acc, files[i], FoundIn(routine, files[i])),
                files, i + 1)

RECURSIVE Usage(_, _)
\* what the second loop of analyzeDatabaseSchema pushes over files from i on
Usage(files, i) ==
    IF i > Len(files) THEN <<>>
    ELSE FoundIn("supabaseUsage", files[i]) \o Usage(files, i + 1)

\* the accumulators a routine starts its file loop with
FirstAcc(routine, files) ==
    IF routine = "analyze_database_schema"
    THEN [EmptyAcc(routine) EXCEPT !.schemaFiles = files]
    ELSE EmptyAcc(routine)

\* analyzeDatabaseSchema after its first loop left acc
AloneSecondLoop(p, acc, codeFiles) ==
    IF FirstUnreadable(p.tree, codeFiles) # ""
    THEN Thrown("analyze_database_schema", ReadError(FirstUnreadable(p.tree, codeFiles)))
    ELSE Returned([json |-> ReportOf("analyze_database_schema", codeFiles,
                                     [acc EXCEPT !.supabaseUsage = Usage(codeFiles, 1)])])

\* a routine with a file loop, files being what its enumeration gave
AloneLoop(p, routine, files) ==
    IF FirstUnreadable(p.tree, Scanned(routine, files)) # ""
    THEN Thrown(routine, ReadError(FirstUnreadable(p.tree, Scanned(routine, files))))
    ELSE IF routine = "analyze_database_schema"
    THEN AloneSecondLoop(p, Passes(routine, FirstAcc(routine, files), files, 1),
                         Slice(Glob(p.tree, "source"), 30))
    ELSE Returned([json |-> ReportOf(routine, files,
                     Passes(routine, FirstAcc(routine, files),
                            Scanned(routine, files), 1))])

\* the outcome of request r served alone on project p at time t
Alone(p, r, t) ==
    IF RoutineOf[r] = "unknown" THEN Unknown(r)
    ELSE IF RoutineOf[r] = "prompt" THEN Returned([plain |-> getPrompt(r.name, r.args)])
    ELSE IF RoutineOf[r] = "analyze_dependencies" THEN Dependencies(p.manifest)
    ELSE IF RoutineOf[r] = "package" THEN Package(p.manifest)
    ELSE IF ~p.enumOK THEN Thrown(RoutineOf[r], EnumError)
    ELSE IF RoutineOf[r] = "analyze_project"
    THEN Returned([json |-> analyzeProjectReport(Parsed(p.manifest),
                                                 Glob(p.tree, "source"), t)])
    ELSE IF RoutineOf[r] = "structure"
    THEN Returned([json |-> ReportOf("structure", Glob(p.tree, "structure"),
                                     EmptyAcc("structure"))])
    ELSE AloneLoop(p, RoutineOf[r], Glob(p.tree, EnumKind(RoutineOf[r])))

\* the outcome without the timestamp of analyze_project
Untimed(o) ==
    IF DOMAIN o.text = {"json"} /\ "timestamp" \in DOMAIN o.text.json
    THEN [o EXCEPT !.text.json.timestamp = 0]
    ELSE o

\* the handler returned the payload { error: message }
IsErrorPayload(o) ==
    o.how = "return" /\ DOMAIN o.text = {"json"} /\ DOMAIN o.text.json = {"error"}

\* the handler returned a report
IsReport(o) ==
    o.how = "return" /\ ~o.isError /\ DOMAIN o.text = {"json"}
    /\ DOMAIN o.text.json # {"error"}

\* the slot holds the finished invocation of a request of the routine
Done(s, routine) ==
    pc[s] = "done" /\ RoutineOf[req[s]] = routine

PerFileRoutines ==
    { "get_components", "get_routing_structure", "get_tailwind_usage",
      "get_hooks_usage", "analyze_api_calls", "analyze_database_schema" }

AnalysisKinds ==
    PerFileRoutines \cup {"analyze_project", "analyze_dependencies"}

-----------------------------------------------------------------------------
(* Error handling                                                          *)

\* C1: a request with a registered name (a tool or a resource) never
\* raises, whatever the enumeration, the manifest and the files do: its
\* handler returns a report or the payload { error: message }.
\* The structure resource raises when its enumeration fails.
C1_NeverRaises ==
    \A s \in Slots :
        (pc[s] = "done" /\ req[s].scheme \in {"tool", "resource"}
                        /\ RoutineOf[req[s]] # "unknown")
        => out[s].how = "return"

\* C2: a request for a name outside the registry is answered by an error
\* result that the handler returns, never by an error raised out of the
\* handler.  An unknown resource and an unknown prompt are raised.
C2_UnknownReturned ==
    \A s \in Slots :
        Done(s, "unknown") => out[s].how = "return" /\ out[s].isError

\* the project without the files that cannot be read
Readables(p) ==
    [p EXCEPT !.tree = Filter(p.tree, { f \in Range(p.tree) : f.readable })]

\* the facts of a per-file report: what the files contributed to it
Facts(routine, j) ==
    CASE routine = "get_components"          -> <<j.components>>
      [] routine = "get_routing_structure"   -> <<j.routes, j.totalRoutes>>
      [] routine = "get_tailwind_usage"      -> <<j.mostUsedClasses, j.fileUsage>>
      [] routine = "get_hooks_usage"         -> <<j.mostUsedHooks, j.fileUsage>>
      [] routine = "analyze_api_calls"       -> <<j.calls, j.totalApiCalls>>
      [] routine = "analyze_database_schema" -> <<j.schema, j.supabaseUsage>>

\* C3: in a per-file analysis a file that cannot be read is skipped: the
\* analysis returns a report, with the facts of the other files as if the
\* file had not been enumerated.  The analysis returns the read error.
C3_UnreadableSkipped ==
    \A s \in Slots :
        (pc[s] = "done" /\ RoutineOf[req[s]] \in PerFileRoutines /\ project.enumOK)
        => /\ IsReport(out[s])
           /\ Facts(RoutineOf[req[s]], out[s].text.json)
              = Facts(RoutineOf[req[s]], Alone(Readables(project), req[s], 0).text.json)

NoFlags(j) ==
    ~(j.hasReact \/ j.hasTypeScript \/ j.hasVite \/ j.hasNext \/ j.hasTailwind
      \/ j.hasSupabase)

\* analyze_project reported a project without a manifest
Unnamed(o) ==
    /\ IsReport(o)
    /\ o.text.json.packageName = "Unknown"
    /\ o.text.json.packageVersion = "Unknown"
    /\ NoFlags(o.text.json)

NoManifest ==
    project.manifest.kind \in {"absent", "unreadable"}

\* C4 as stated: with the manifest absent or unreadable analyze_project
\* returns a report with packageName and packageVersion "Unknown" and no
\* framework flag, and analyze_dependencies returns
\* { error: 'No package.json found' }.  analyze_project returns an error
\* payload when the enumeration of the files fails.
C4_AsStated ==
    \A s \in Slots :
        /\ (Done(s, "analyze_project") /\ NoManifest) => Unnamed(out[s])
        /\ (Done(s, "analyze_dependencies") /\ NoManifest)
           => out[s] = Returned(ErrorPayload("No package.json found"))

\* C4: with the manifest absent or unreadable, analyze_project returns a
\* report with packageName and packageVersion "Unknown" and no framework
\* flag whenever the enumeration of the files succeeds, and
\* analyze_dependencies returns { error: 'No package.json found' }.
C4_ManifestAbsent ==
    \A s \in Slots :
        /\ (Done(s, "analyze_project") /\ NoManifest /\ project.enumOK)
           => Unnamed(out[s])
        /\ (Done(s, "analyze_dependencies") /\ NoManifest)
           => out[s] = Returned(ErrorPayload("No package.json found"))

C4_Witness ==
    /\ Done(1, "analyze_project")
    /\ project.manifest.kind = "unreadable"
    /\ project.enumOK
    /\ IsReport(out[1])
    /\ out[1].text.json.totalFiles > 0

\* the counts of a report are all zero and its lists are empty
ZeroCounts(routine, j) ==
    CASE routine = "analyze_project" ->
            /\ j.totalFiles = 0
            /\ j.fileTypes = [tsx |-> 0, jsx |-> 0, ts |-> 0, js |-> 0]
      [] routine = "analyze_dependencies" ->
            /\ j.totalDependencies = 0
            /\ j.totalDevDependencies = 0
      [] routine = "get_components" ->
            j.totalComponents = 0 /\ j.analyzed = 0 /\ j.components = <<>>
      [] routine = "get_routing_structure" ->
            j.totalRoutes = 0 /\ j.routes = <<>> /\ j.routingFiles = <<>>
      [] routine = "get_tailwind_usage" ->
            /\ j.totalFiles = 0 /\ j.analyzedFiles = 0 /\ j.totalUniqueClasses = 0
            /\ j.mostUsedClasses = <<>> /\ j.fileUsage = <<>>
      [] routine = "get_hooks_usage" ->
            /\ j.totalFiles = 0 /\ j.analyzedFiles = 0 /\ j.totalHooksUsage = 0
            /\ j.mostUsedHooks = <<>> /\ j.fileUsage = <<>>
      [] routine = "analyze_api_calls" ->
            j.totalApiCalls = 0 /\ j.calls = <<>>
      [] routine = "analyze_database_schema" ->
            /\ j.totalFiles = 0
            /\ j.statistics = [ totalTables |-> 0, totalTypes |-> 0, totalFunctions |-> 0,
                                totalPolicies |-> 0, totalRelationships |-> 0,
                                supabaseReferences |-> 0 ]

\* an empty directory: the enumeration gives no file, there is no manifest
EmptyProject ==
    project.tree = <<>> /\ project.enumOK /\ project.manifest.kind = "absent"

\* a tool call of one of the eight analysis kinds is finished in slot s
Analysed(s) ==
    pc[s] = "done" /\ req[s].scheme = "tool" /\ RoutineOf[req[s]] \in AnalysisKinds

\* C5 as stated: on an empty directory each of the eight analysis kinds
\* returns a report whose counts are zero, none an error object.
\* analyze_dependencies returns { error: 'No package.json found' }.
C5_AsStated ==
    \A s \in Slots :
        (Analysed(s) /\ EmptyProject)
        => IsReport(out[s]) /\ ZeroCounts(RoutineOf[req[s]], out[s].text.json)

\* C5: on an empty directory each analysis kind but analyze_dependencies
\* returns a report whose counts are zero; analyze_dependencies returns
\* { error: 'No package.json found' }.
C5_EmptyProject ==
    \A s \in Slots :
        (Analysed(s) /\ EmptyProject)
        => IF RoutineOf[req[s]] = "analyze_dependencies"
           THEN out[s] = Returned(ErrorPayload("No package.json found"))
           ELSE IsReport(out[s]) /\ ZeroCounts(RoutineOf[req[s]], out[s].text.json)

C5_Witness ==
    /\ Analysed(1)
    /\ EmptyProject
    /\ RoutineOf[req[1]] = "get_hooks_usage"
    /\ IsReport(out[1])

-----------------------------------------------------------------------------
(* Statelessness                                                           *)

\* C6: whatever requests were served before, a request returns what it
\* returns when it is the first request served on the same files (the
\* timestamp of analyze_project excepted).
C6_Stateless ==
    \A s \in Slots :
        pc[s] = "done" => Untimed(out[s]) = Untimed(Alone(project, req[s], 0))

\* a ranking is returned a second time, after other requests were served
C6_Witness ==
    /\ Done(1, "get_tailwind_usage")
    /\ now >= 1
    /\ loc[1].i > 1
    /\ IsReport(out[1])
    /\ Len(out[1].text.json.mostUsedClasses) > 1

-----------------------------------------------------------------------------
(* Overlapping invocations                                                 *)

\* C7: a request whose invocation overlapped with the invocations of other
\* requests, interleaved at their awaits, returns what it returns when it
\* is served alone on the same files.
C7_Isolated ==
    \A s \in Slots :
        (pc[s] = "done" /\ overlap[s])
        => Untimed(out[s]) = Untimed(Alone(project, req[s], 0))

\* two invocations of getHooksUsage overlapped and both tallied hooks
C7_Witness ==
    /\ Done(1, "get_hooks_usage") /\ Done(2, "get_hooks_usage")
    /\ overlap[1] /\ overlap[2]
    /\ loc[1].i > 2 /\ loc[2].i > 2
    /\ IsReport(out[1]) /\ IsReport(out[2])
    /\ Len(out[1].text.json.mostUsedHooks) > 1

-----------------------------------------------------------------------------
(* Dependency categories                                                   *)

\* the substrings of each category but other, in the order of the rules
CategoryRules ==
    << <<"react",     {"react", "@types/react"}>>,
       <<"ui",        {"ui", "component", "material", "ant", "chakra"}>>,
       <<"state",     {"redux", "zustand", "jotai", "recoil"}>>,
       <<"routing",   {"router", "navigation", "reach"}>>,
       <<"styling",   {"styled", "emotion", "tailwind", "css", "sass"}>>,
       <<"database",  {"supabase", "prisma", "mongoose", "firebase"}>>,
       <<"build",     {"vite", "webpack", "rollup", "babel", "esbuild"}>>,
       <<"testing",   {"test", "jest", "vitest", "cypress", "playwright"}>>,
       <<"utilities", {"lodash", "axios", "dayjs", "uuid", "clsx"}>> >>

\* the rules that match the name
Matching(name) ==
    { i \in 1..Len(CategoryRules) : \E q \in CategoryRules[i][2] : Includes(name, q) }

\* the first category in the order of the rules whose rule matches
FirstMatch(name) ==
    LET hit == Matching(name)
    IN  IF hit = {} THEN "other" ELSE CategoryRules[Least(hit)][1]

\* the categories whose list holds an entry of the name
PlacedIn(categories, name) ==
    { c \in DOMAIN categories : \E i \in 1..Len(categories[c]) : categories[c][i].name = name }

\* the entries of all the lists
Placed(categories) ==
    { <<c, i>> \in (DOMAIN categories) \X (1..(MaxDeps + 2)) : i <= Len(categories[c]) }

\* C8: analyze_dependencies places every entry of dependencies and of
\* devDependencies in exactly one of the ten categories, the first in the
\* order react, ui, state, routing, styling, database, build, testing,
\* utilities whose substring rule matches the name, other when none does,
\* whatever the version and the object the entry came from.
C8_FirstMatch ==
    \A s \in Slots :
        Done(s, "analyze_dependencies") /\ IsReport(out[s])
        => LET m == project.manifest
               categories == out[s].text.json.categories
           IN  /\ DOMAIN categories = Range(CategoryNames)
               /\ \A e \in Range(m.dependencies) \cup Range(m.devDependencies) :
                     LET first == FirstMatch(e.name)
                     IN  /\ PlacedIn(categories, e.name) = {first}
                         /\ \E i \in 1..Len(categories[first]) :
                               categories[first][i] = e
               /\ Cardinality(Placed(categories))
                  = Len(m.dependencies) + Len(m.devDependencies)

\* a name that the react and the routing rules match came with
\* dependencies, a name that the ui and the utilities rules match with
\* devDependencies
C8_Witness ==
    /\ Done(1, "analyze_dependencies") /\ IsReport(out[1])
    /\ \E i \in 1..Len(project.manifest.dependencies) :
          project.manifest.dependencies[i].name = "react-router-dom"
    /\ \E i \in 1..Len(project.manifest.devDependencies) :
          project.manifest.devDependencies[i].name = "uuid"
    /\ Matching("react-router-dom") = {1, 4}
    /\ Matching("uuid") = {2, 9}
    /\ Len(out[1].text.json.categories.react) = 1
    /\ Len(out[1].text.json.categories.ui) = 1

-----------------------------------------------------------------------------
(* Frequency rankings                                                      *)

\* the names the body of the file loop counts in a file, in the order in
\* which it counts them
Counted(routine, file) ==
    IF routine = "get_tailwind_usage"
    THEN Tallied(FoundIn(routine, file))
    ELSE LET found == FoundIn(routine, file)
         IN  Filter(builtInHooks, { builtInHooks[i] : i \in { j \in 1..Len(builtInHooks) :
                                                              found.builtIn[j] > 0 } })
             \o Filter(found.customHookMatches,
                       Range(found.customHookMatches) \ Range(builtInHooks))

RECURSIVE CountedIn(_, _)
\* the names counted over the files, in the order of the scan
CountedIn(routine, files) ==
    IF files = <<>> THEN <<>>
    ELSE Counted(routine, Head(files)) \o CountedIn(routine, Tail(files))

\* the position of the first time the scan counts the name
FirstEncounter(encounters, name) ==
    Least({ i \in 1..Len(encounters) : encounters[i] = name })

\* the ranking as <<name, count>> pairs
Ranking(routine, json) ==
    IF routine = "get_tailwind_usage"
    THEN [i \in 1..Len(json.mostUsedClasses) |->
            <<json.mostUsedClasses[i].class, json.mostUsedClasses[i].count>>]
    ELSE [i \in 1..Len(json.mostUsedHooks) |->
            <<json.mostUsedHooks[i].hook, json.mostUsedHooks[i].count>>]

\* count descending, and first encounter ascending among equal counts
Ranked(ranking, encounters) ==
    \A i, j \in 1..Len(ranking) :
        i < j => \/ ranking[i][2] > ranking[j][2]
                 \/ /\ ranking[i][2] = ranking[j][2]
                    /\ FirstEncounter(encounters, ranking[i][1])
                       < FirstEncounter(encounters, ranking[j][1])

RankingRoutines ==
    {"get_tailwind_usage", "get_hooks_usage"}

\* C9: mostUsedClasses of get_tailwind_usage and mostUsedHooks of
\* get_hooks_usage are ordered by descending count, and entries of equal
\* count stand in the order in which the scan of the enumerated files first
\* counted their names: file after file, and within a file as the loop body
\* counts (the class attributes one expression after the other, the built-in
\* hooks in the order of builtInHooks before the other hooks).
C9_RankedByCount ==
    \A s \in Slots :
        (pc[s] = "done" /\ RoutineOf[req[s]] \in RankingRoutines /\ IsReport(out[s]))
        => LET routine == RoutineOf[req[s]]
               encounters == CountedIn(routine, Scanned(routine, Glob(project.tree, "source")))
               ranking == Ranking(routine, out[s].text.json)
           IN  /\ \A i \in 1..Len(ranking) :
                     \E k \in 1..Len(encounters) : encounters[k] = ranking[i][1]
               /\ Ranked(ranking, encounters)

\* three files were scanned and the ranking holds entries of equal count
\* as well as entries of different counts
C9_Witness ==
    /\ pc[1] = "done" /\ RoutineOf[req[1]] \in RankingRoutines /\ IsReport(out[1])
    /\ Len(project.tree) = 3
    /\ project.tree[1].path = "src/rank/b.tsx"
    /\ LET ranking == Ranking(RoutineOf[req[1]], out[1].text.json)
       IN  /\ Len(ranking) >= 4
           /\ ranking[1][2] > ranking[2][2]
           /\ \E i \in 1..(Len(ranking) - 1) : ranking[i][2] = ranking[i + 1][2]

-----------------------------------------------------------------------------
(* Limits of the lists                                                     *)

\* xs is the beginning of all
IsPrefix(xs, all) ==
    Len(xs) <= Len(all) /\ xs = SubSeq(all, 1, Len(xs))

\* xs is all, cut after its first n elements
CappedAt(xs, n, all) ==
    Len(xs) = Min(n, Len(all)) /\ IsPrefix(xs, all)

\* the prefixes of the four tailwind patterns
PatternPrefixes ==
    [ layout     |-> {"flex", "grid", "block", "inline", "hidden", "w-", "h-", "p-", "m-",
                      "space-", "gap-"},
      colors     |-> {"bg-", "text-", "border-", "from-", "to-", "via-"},
      typography |-> {"text-", "font-", "leading-", "tracking-", "uppercase", "lowercase"},
      responsive |-> {"sm:", "md:", "lg:", "xl:", "2xl:"} ]

\* the entries of a ranking of classes that a pattern matches
OfPattern(entries, pattern) ==
    Filter(entries, { e \in Range(entries) : StartsWithAny(e.class, PatternPrefixes[pattern]) })

\* the component of every file of the enumeration
AllComponents(files) ==
    [i \in 1..Len(files) |-> FoundIn("get_components", files[i])]

\* the lists of the report json are the lists the routine gathered in its
\* locals acc, each cut at its limit
Capped(routine, json, acc) ==
    CASE routine = "get_components" ->
            CappedAt(json.components, 20, AllComponents(Glob(project.tree, "component")))
      [] routine = "get_routing_structure" ->
            CappedAt(json.routes, 20, acc.facts)
      [] routine = "get_tailwind_usage" ->
            LET ranking == ClassEntries(SortDesc(acc.classUsage))
            IN  /\ CappedAt(json.mostUsedClasses, 30, ranking)
                /\ \A pattern \in DOMAIN PatternPrefixes :
                      /\ CappedAt(json.patterns[pattern], 10,
                                  OfPattern(json.mostUsedClasses, pattern))
                      /\ IsPrefix(json.patterns[pattern], OfPattern(ranking, pattern))
                /\ CappedAt(json.fileUsage, 10, acc.fileUsage)
      [] routine = "get_hooks_usage" ->
            LET sorted == SortDesc(acc.hookUsage)
            IN  /\ CappedAt(json.mostUsedHooks, 20,
                            [i \in 1..Len(sorted) |->
                               [hook |-> sorted[i][1], count |-> sorted[i][2]]])
                /\ CappedAt(json.fileUsage, 15, acc.fileUsage)
      [] routine = "analyze_api_calls" ->
            CappedAt(json.calls, 20, acc.facts)
      [] routine = "analyze_database_schema" ->
            /\ CappedAt(json.schema.tables, 20, acc.tables)
            /\ CappedAt(json.schema.types, 20, acc.types)
            /\ CappedAt(json.schema.functions, 10, acc.functions)
            /\ CappedAt(json.schema.policies, 10, acc.policies)
            /\ CappedAt(json.schema.relationships, 10, acc.relationships)
            /\ CappedAt(json.supabaseUsage, 15, acc.supabaseUsage)
      [] routine = "structure" ->
            CappedAt(json.files, 100, Glob(project.tree, "structure"))

CappedRoutines ==
    { "get_components", "get_routing_structure", "get_tailwind_usage", "get_hooks_usage",
      "analyze_api_calls", "analyze_database_schema", "structure" }

\* C10: whatever the number of facts, a request returns its report and
\* every bounded list of the report is the beginning of the untruncated
\* list, cut at its limit: components 20, routes 20, mostUsedClasses 30,
\* each tailwind pattern 10, tailwind fileUsage 10, mostUsedHooks 20, hooks
\* fileUsage 15, API calls 20, tables 20, types 20, functions, policies and
\* relationships 10 each, supabaseUsage 15, structure files 100.
C10_Capped ==
    \A s \in Slots :
        (pc[s] = "done" /\ RoutineOf[req[s]] \in CappedRoutines)
        => /\ IsReport(out[s])
           /\ Capped(RoutineOf[req[s]], out[s].text.json, loc[s].acc)

\* get_tailwind_usage counted more than thirty classes in more than ten
\* files and reports thirty of them, ten of them under a pattern, and ten
\* files
C10_Witness ==
    /\ Done(1, "get_tailwind_usage") /\ IsReport(out[1])
    /\ Len(loc[1].acc.classUsage) > 30
    /\ Len(loc[1].acc.fileUsage) > 10
    /\ Len(out[1].text.json.mostUsedClasses) = 30
    /\ Len(OfPattern(out[1].text.json.mostUsedClasses, "responsive")) > 10
    /\ Len(out[1].text.json.patterns.responsive) = 10
    /\ Len(out[1].text.json.fileUsage) = 10

-----------------------------------------------------------------------------
(* Resources and the operations they stand for                             *)

\* the call of the tool name
ToolCall(name) ==
    [name |-> name, scheme |-> "tool", args |-> <<>>]

\* the slot holds the finished read of the resource uri
Read(s, uri) ==
    pc[s] = "done" /\ req[s].scheme = "resource" /\ req[s].name = uri

\* the handler returned something other than the payload { error: message }
Succeeded(o) ==
    o.how = "return" /\ ~o.isError /\ ~IsErrorPayload(o)

\* reading the resource returned exactly what the tool returns for the
\* project
SameText(s, uri, name) ==
    Read(s, uri) => out[s] = Alone(project, ToolCall(name), 0)

\* reading project://package succeeded exactly when analyze_dependencies
\* succeeds for the manifest
SameOutcome(s) ==
    Succeeded(out[s]) <=> Succeeded(Dependencies(project.manifest))

-----------------------------------------------------------------------------
(* What the enumerations leave out                                         *)

\* build output, the dependency cache, version-control metadata
ExcludedDirs ==
    {"dist", "build", "node_modules", ".git"}

\* the path stays under the project root: it names a file of the tree and
\* has no parent-directory segment
InsideRoot(path) ==
    /\ path \in Range(Paths(project.tree))
    /\ \A i \in 1..Len(Segments(path)) : Segments(path)[i] # ".."

\* one of the directories above the file is an excluded directory
InExcluded(path) ==
    \E i \in 1..(Len(Segments(path)) - 1) : Segments(path)[i] \in ExcludedDirs

\* the paths of the tree under an excluded directory at any depth
UnderExcluded ==
    { p \in Range(Paths(project.tree)) : InExcluded(p) }

\* C12: no path an enumeration returned, for a tool or for a resource, has
\* a directory segment dist, build, node_modules or .git at any depth, and
\* every such path is a path of the project tree without a parent-directory
\* segment; the four directories are left out of every enumeration alike
\* (the ignore option names .git for the structure resource only, and the
\* default dot: false of fast-glob hides it from the other enumerations).
C12_ExcludedDirs ==
    \A s \in Slots :
        \A i \in 1..Len(loc[s].files) :
            /\ ~InExcluded(loc[s].files[i])
            /\ InsideRoot(loc[s].files[i])

\* an enumeration returned a file of a project that has a file under an
\* excluded directory below the root
C12_Witness ==
    /\ loc[1].files # <<>>
    /\ \E p \in UnderExcluded : Segments(p)[1] \notin ExcludedDirs

-----------------------------------------------------------------------------
(* Route declarations                                                      *)

\* the only routing file of the project is src/App.tsx, and the files of
\* the project can be read
OnlyAppRoutes ==
    /\ project.enumOK
    /\ Glob(project.tree, "routing") = <<"src/App.tsx">>
    /\ \A i \in 1..Len(project.tree) : project.tree[i].readable

\* C13: a project whose only routing file src/App.tsx holds the single
\* declaration <Route path="/home"> has a routing report with one route
\* fact, of path "/home", and totalRoutes = 1.
\* The declaration matches the first and the third of routePatterns, each
\* match is pushed, and the report has two facts of path "/home".
C13_OneFactPerDeclaration ==
    \A s \in Slots :
        (Done(s, "get_routing_structure") /\ OnlyAppRoutes)
        => /\ IsReport(out[s])
           /\ out[s].text.json.totalRoutes = 1
           /\ Len(out[s].text.json.routes) = 1
           /\ out[s].text.json.routes[1].path = "/home"

-----------------------------------------------------------------------------
(* The four shapes of an API call                                          *)

CallTypes ==
    {"fetch", "axios", "supabase", "api_endpoint"}

\* the calls written in the files of BaseFiles, read off their contents:
\* per file, the matches of each shape
CallsWritten ==
    [p \in Range(Paths(BaseFiles)) |->
        CASE p = "src/components/Card.jsx" ->
                [t \in CallTypes |-> IF t \in {"fetch", "api_endpoint"} THEN 1 ELSE 0]
          [] p = "src/routes.js" ->
                [t \in CallTypes |-> IF t = "axios" THEN 1 ELSE 0]
          [] p \in {"src/hooks/useAuth.ts", "src/types/database.ts"} ->
                [t \in CallTypes |-> IF t = "supabase" THEN 1 ELSE 0]
          [] OTHER ->
                [t \in CallTypes |-> 0]]

\* the facts of the type that the report has for the file
CallsOf(j, file, type) ==
    { i \in 1..Len(j.calls) : j.calls[i].file = file /\ j.calls[i].type = type }

\* C14: each of the four shapes is matched on its own: the report of
\* analyze_api_calls has, for every file scanned and every shape, one fact
\* per match of the shape in the file, with the type of the shape and the
\* file; a literal that two shapes match, as in fetch('/api/cards'), is a
\* fact of each; totalApiCalls is the sum of the counts of apiTypes.
C14_ShapesIndependent ==
    \A s \in Slots :
        (Done(s, "analyze_api_calls") /\ IsReport(out[s]))
        => LET j     == out[s].text.json
               files == Glob(project.tree, "source")
           IN  /\ \A i \in 1..Len(j.calls) :
                     j.calls[i].type \in CallTypes /\ j.calls[i].file \in Range(files)
               /\ \A f \in Range(files) : \A t \in CallTypes :
                     Cardinality(CallsOf(j, f, t)) = CallsWritten[f][t]
               /\ j.totalApiCalls = SumCounts(j.apiTypes)

\* the literal of fetch('/api/cards') was reported as a fetch call and as an
\* endpoint
C14_Witness ==
    /\ Done(1, "analyze_api_calls") /\ IsReport(out[1])
    /\ \E i, k \in 1..Len(out[1].text.json.calls) :
          /\ out[1].text.json.calls[i].type = "fetch"
          /\ out[1].text.json.calls[i].url = "/api/cards"
          /\ out[1].text.json.calls[k].type = "api_endpoint"
          /\ out[1].text.json.calls[k].endpoint = "cards"
          /\ out[1].text.json.calls[k].file = out[1].text.json.calls[i].file

-----------------------------------------------------------------------------
(* Protected routes                                                        *)

\* the text has one of the marker words, in any case, anywhere
HasMarker(text) ==
    \E w \in {"auth", "protected", "private"} : Includes(ToLower(text), w)

\* C15: isProtected is a property of the file: a route fact of the routing
\* report has isProtected = TRUE exactly when the content of its file has
\* auth, protected or private in any case anywhere, so the facts of one
\* file have the same isProtected.
C15_ProtectedByFile ==
    \A s \in Slots :
        (Done(s, "get_routing_structure") /\ IsReport(out[s]))
        => LET routes == out[s].text.json.routes
           IN  /\ \A i \in 1..Len(routes) :
                     routes[i].isProtected = HasMarker(ContentOf[routes[i].file])
               /\ \A i, k \in 1..Len(routes) :
                     routes[i].file = routes[k].file
                     => routes[i].isProtected = routes[k].isProtected

\* the report has a protected route of a file whose marker is written in
\* capitals away from the route, and a route that is not protected
C15_Witness ==
    /\ Done(1, "get_routing_structure") /\ IsReport(out[1])
    /\ \E i, k \in 1..Len(out[1].text.json.routes) :
          /\ out[1].text.json.routes[i].isProtected
          /\ ~Includes(ContentOf[out[1].text.json.routes[i].file], "auth")
          /\ ~out[1].text.json.routes[k].isProtected

-----------------------------------------------------------------------------
(* Class tokens and the patterns they fall under                           *)

\* the class tokens written in a file of BaseFiles or LargeFiles, read off
\* its content: the tokens of its class attribute, in order
ClassesWritten(p) ==
    CASE p = "src/App.tsx" -> <<"flex", "p-4", "md:p-8">>
      [] p = "src/components/Card.jsx" -> <<"p-4", "flex", "text-lg">>
      [] \E i \in 1..MaxPages : p = PageFile(i).path ->
            LET i == CHOOSE i \in 1..MaxPages : p = PageFile(i).path
            IN  IF i <= 15 THEN <<"p-" \o ToString(i), "text-" \o ToString(i)>>
                ELSE <<"md:p-" \o ToString(i), "lg:p-" \o ToString(i)>>
      [] OTHER -> <<>>

\* how many times the token is written in the files
TimesWritten(token, files) ==
    Cardinality({ <<i, k>> \in (1..Len(files)) \X (1..3) :
                    k <= Len(ClassesWritten(files[i]))
                    /\ ClassesWritten(files[i])[k] = token })

\* classUsage has every token written in the files, once, with the number
\* of times it is written
TalliedOnce(classUsage, files) ==
    /\ \A i \in 1..Len(files) : \A k \in 1..Len(ClassesWritten(files[i])) :
          \E e \in 1..Len(classUsage) : classUsage[e][1] = ClassesWritten(files[i])[k]
    /\ \A e \in 1..Len(classUsage) :
          /\ classUsage[e][2] = TimesWritten(classUsage[e][1], files)
          /\ classUsage[e][2] > 0
          /\ \A d \in 1..Len(classUsage) : classUsage[d][1] = classUsage[e][1] => d = e

\* the classes a list of entries names
ClassesIn(entries) ==
    { entries[i].class : i \in 1..Len(entries) }

\* C16 as stated: every tallied token that starts with sm:, md:, lg:, xl:
\* or 2xl: is listed under responsive.  The patterns are filtered out of
\* the thirty most used classes and cut at ten entries: a responsive token
\* that is not among the thirty, or comes after ten others, is not listed.
C16_AsStated ==
    \A s \in Slots :
        (Done(s, "get_tailwind_usage") /\ IsReport(out[s]))
        => /\ TalliedOnce(loc[s].acc.classUsage,
                          Slice(Glob(project.tree, "source"), 50))
           /\ \A e \in 1..Len(loc[s].acc.classUsage) :
                 StartsWithAny(loc[s].acc.classUsage[e][1], PatternPrefixes.responsive)
                 => loc[s].acc.classUsage[e][1]
                       \in ClassesIn(out[s].text.json.patterns.responsive)

\* C16: the value of a class attribute is split on whitespace and every
\* token is tallied once per occurrence; a token among the thirty most used
\* classes that starts with sm:, md:, lg:, xl: or 2xl: is listed under
\* responsive when fewer than ten responsive tokens rank before it, and
\* each pattern lists the first ten of the thirty that its own rule
\* matches, whatever the other patterns list.
C16_TokensTallied ==
    \A s \in Slots :
        (Done(s, "get_tailwind_usage") /\ IsReport(out[s]))
        => LET j == out[s].text.json
           IN  /\ TalliedOnce(loc[s].acc.classUsage,
                              Slice(Glob(project.tree, "source"), 50))
               /\ \A pattern \in DOMAIN PatternPrefixes :
                     \A i \in 1..Len(j.mostUsedClasses) :
                        LET e == j.mostUsedClasses[i]
                            before == { k \in 1..(i - 1) :
                                          StartsWithAny(j.mostUsedClasses[k].class,
                                                        PatternPrefixes[pattern]) }
                        IN  (\E k \in 1..Len(j.patterns[pattern]) : j.patterns[pattern][k] = e)
                            <=> /\ StartsWithAny(e.class, PatternPrefixes[pattern])
                                /\ Cardinality(before) < 10

\* className="flex p-4 md:p-8" was tallied as three tokens, md:p-8 once and
\* listed under responsive, and text-lg is listed under colors and under
\* typography
C16_Witness ==
    /\ Done(1, "get_tailwind_usage") /\ IsReport(out[1])
    /\ \E e \in 1..Len(loc[1].acc.classUsage) : loc[1].acc.classUsage[e] = <<"md:p-8", 1>>
    /\ {"flex", "p-4", "md:p-8"} \subseteq ClassesIn(out[1].text.json.mostUsedClasses)
    /\ "md:p-8" \in ClassesIn(out[1].text.json.patterns.responsive)
    /\ "text-lg" \in ClassesIn(out[1].text.json.patterns.colors)
    /\ "text-lg" \in ClassesIn(out[1].text.json.patterns.typography)

-----------------------------------------------------------------------------
(* Built-in and custom hooks                                               *)

\* the identifiers of the shape use + capital written in a file of
\* DirFiles that the enumeration of the source files returns, read off its
\* content, in order: useStateful and useItem are not built-in, reuseState
\* and useless are not of the shape
HooksWritten(p) ==
    CASE p = "src/distribution/main.ts" ->
            <<"useStateful", "useState", "useState", "useItem">>
      [] p = "src/builder/index.tsx" ->
            <<"useItem", "useId", "useStateful">>
      [] OTHER -> <<>>

\* how many times the hook is written in the files
TimesUsed(hook, files) ==
    Cardinality({ <<i, k>> \in (1..Len(files)) \X (1..4) :
                    k <= Len(HooksWritten(files[i])) /\ HooksWritten(files[i])[k] = hook })

\* the hooks written in the files
UsedIn(files) ==
    { h \in {"useStateful", "useState", "useItem", "useId"} : TimesUsed(h, files) > 0 }

\* C17: the count of a built-in hook is the number of its whole-word
\* occurrences in the files scanned, every identifier of the shape use +
\* capital that is not built-in is counted as a custom hook once per
\* occurrence, and customHooksFound has the custom hooks, no built-in hook
\* and no name twice.
C17_HooksCounted ==
    \A s \in Slots :
        (Done(s, "get_hooks_usage") /\ IsReport(out[s]))
        => LET j     == out[s].text.json
               files == Slice(Glob(project.tree, "source"), 50)
               found == j.customHooksFound
           IN  /\ { j.mostUsedHooks[i].hook : i \in 1..Len(j.mostUsedHooks) } = UsedIn(files)
               /\ \A i \in 1..Len(j.mostUsedHooks) :
                     j.mostUsedHooks[i].count = TimesUsed(j.mostUsedHooks[i].hook, files)
               /\ Range(found) = UsedIn(files) \ Range(builtInHooks)
               /\ \A i, k \in 1..Len(found) : found[i] = found[k] => i = k

\* useState was counted twice beside useStateful, and useStateful, found in
\* two files, is listed once
C17_Witness ==
    /\ Done(1, "get_hooks_usage") /\ IsReport(out[1])
    /\ \A h \in {"useState", "useStateful"} :
          \E i \in 1..Len(out[1].text.json.mostUsedHooks) :
             /\ out[1].text.json.mostUsedHooks[i].hook = h
             /\ out[1].text.json.mostUsedHooks[i].count = 2
    /\ Len(out[1].text.json.customHooksFound) = 2

-----------------------------------------------------------------------------
(* The files a loop scans                                                  *)

\* the first n elements of xs
FirstOnes(xs, n) ==
    SubSeq(xs, 1, Min(n, Len(xs)))

\* the tokens written in the files
WrittenIn(files) ==
    UNION { Range(ClassesWritten(files[i])) : i \in 1..Len(files) }

\* every fact of facts is a fact of one of the files
FromFiles(facts, files) ==
    \A i \in 1..Len(facts) : facts[i].file \in Range(files)

\* the report json, made from the locals acc, has nothing of a file after
\* the first files of the enumeration that its loop scans, and its total is
\* the length of the enumeration
OnlyScanned(routine, json, acc) ==
    LET components == Glob(project.tree, "component")
        sources    == Glob(project.tree, "source")
    IN  CASE routine = "get_components" ->
                /\ json.totalComponents = Len(components)
                /\ json.analyzed = Min(json.totalComponents, 20)
                /\ json.analyzed = Len(json.components)
                /\ [i \in 1..Len(json.components) |-> json.components[i].path]
                   = FirstOnes(components, 20)
          [] routine = "get_tailwind_usage" ->
                /\ json.totalFiles = Len(sources)
                /\ FromFiles(acc.fileUsage, FirstOnes(sources, 50))
                /\ { acc.classUsage[i][1] : i \in 1..Len(acc.classUsage) }
                   = WrittenIn(FirstOnes(sources, 50))
          [] routine = "get_hooks_usage" ->
                /\ json.totalFiles = Len(sources)
                /\ FromFiles(acc.fileUsage, FirstOnes(sources, 50))
                /\ FromFiles(acc.customHooks, FirstOnes(sources, 50))
          [] routine = "analyze_api_calls" ->
                FromFiles(acc.facts, FirstOnes(sources, 50))
          [] routine = "analyze_database_schema" ->
                FromFiles(acc.supabaseUsage, FirstOnes(sources, 30))

PrefixRoutines ==
    { "get_components", "get_tailwind_usage", "get_hooks_usage", "analyze_api_calls",
      "analyze_database_schema" }

\* C18: a per-file analysis scans the first files of its enumeration only:
\* 20 for get_components, 50 for get_tailwind_usage, get_hooks_usage and
\* analyze_api_calls, 30 code files for supabaseUsage; a file after them
\* gives the report no fact, totalComponents and totalFiles count the whole
\* enumeration, and in get_components analyzed = min(totalComponents, 20)
\* = the length of components.
C18_PrefixScanned ==
    \A s \in Slots :
        (pc[s] = "done" /\ RoutineOf[req[s]] \in PrefixRoutines /\ IsReport(out[s]))
        => OnlyScanned(RoutineOf[req[s]], out[s].text.json, loc[s].acc)

\* get_tailwind_usage on more than fifty source files, the fifty-first with
\* classes that the report does not count, and totalFiles counting it
C18_Witness ==
    /\ Done(1, "get_tailwind_usage") /\ IsReport(out[1])
    /\ Len(Glob(project.tree, "source")) > 50
    /\ ClassesWritten(Glob(project.tree, "source")[51]) # <<>>
    /\ out[1].text.json.totalFiles = Len(Glob(project.tree, "source"))
    /\ Range(ClassesWritten(Glob(project.tree, "source")[51]))
       \cap { loc[1].acc.classUsage[i][1] : i \in 1..Len(loc[1].acc.classUsage) } = {}

-----------------------------------------------------------------------------
(* Framework flags                                                         *)

FrameworkFlags ==
    {"hasReact", "hasNext", "hasVite", "hasTailwind", "hasSupabase", "hasTypeScript"}

\* C19: for one manifest, the flags hasReact, hasNext, hasVite,
\* hasTailwind, hasSupabase and hasTypeScript of analyze_project are the
\* flags of the same names of the frameworks object of
\* analyze_dependencies, under dependencies and under devDependencies.
\* analyze_dependencies reads hasReact, hasNext and hasSupabase off
\* dependencies only: for react under devDependencies analyze_project has
\* hasReact and analyze_dependencies has not.
C19_FlagsAgree ==
    \A s \in Slots :
        (Done(s, "analyze_project") /\ IsReport(out[s])
            /\ IsReport(Dependencies(project.manifest)))
        => \A flag \in FrameworkFlags :
              out[s].text.json[flag]
              = Dependencies(project.manifest).text.json.frameworks[flag]

-----------------------------------------------------------------------------
(* The patterns and the thirty most used classes                           *)

\* the classes counted that are not among the most used classes reported
Unranked(json, acc) ==
    { acc.classUsage[i][1] : i \in 1..Len(acc.classUsage) }
    \ ClassesIn(json.mostUsedClasses)

\* C20: the four patterns are taken from the thirty most used classes:
\* every entry of a pattern is an entry of mostUsedClasses, with its count;
\* a class that is not among the thirty is listed under no pattern; and
\* totalUniqueClasses counts every class tallied.
C20_PatternsOfTopThirty ==
    \A s \in Slots :
        (Done(s, "get_tailwind_usage") /\ IsReport(out[s]))
        => LET j == out[s].text.json
           IN  /\ Len(j.mostUsedClasses) <= 30
               /\ \A pattern \in DOMAIN PatternPrefixes :
                     /\ Range(j.patterns[pattern]) \subseteq Range(j.mostUsedClasses)
                     /\ ClassesIn(j.patterns[pattern]) \cap Unranked(j, loc[s].acc) = {}
               /\ j.totalUniqueClasses
                  = Cardinality(WrittenIn(FirstOnes(Glob(project.tree, "source"), 50)))

\* more than thirty classes were tallied, a responsive class is not among
\* the thirty most used, and no pattern lists it
C20_Witness ==
    /\ Done(1, "get_tailwind_usage") /\ IsReport(out[1])
    /\ out[1].text.json.totalUniqueClasses > 30
    /\ out[1].text.json.patterns.layout # <<>>
    /\ \E c \in Unranked(out[1].text.json, loc[1].acc) :
          StartsWithAny(c, PatternPrefixes.responsive)
    /\ out[1].text.json.patterns.responsive = <<>>

-----------------------------------------------------------------------------
(* File types                                                              *)

\* the text of the path after its last "."
Extension(path) ==
    LET dots == { i \in 1..Len(path) : SubSeq(path, i, i) = "." }
    IN  IF dots = {} THEN ""
        ELSE SubSeq(path, (CHOOSE i \in dots : \A k \in dots : k <= i) + 1, Len(path))

\* the files of the extension
OfExtension(files, ext) ==
    { i \in 1..Len(files) : Extension(files[i]) = ext }

\* C21: in a report of analyze_project the four counts of fileTypes
\* partition the files enumerated: every file has exactly one of the
\* extensions tsx, jsx, ts and js, each count is the number of the files of
\* its extension, and tsx + jsx + ts + js = totalFiles.
C21_FileTypesPartition ==
    \A s \in Slots :
        (Done(s, "analyze_project") /\ IsReport(out[s]))
        => LET j     == out[s].text.json
               files == Glob(project.tree, "source")
           IN  /\ j.totalFiles = Len(files)
               /\ \A i \in 1..Len(files) : Extension(files[i]) \in {"tsx", "jsx", "ts", "js"}
               /\ \A ext \in {"tsx", "jsx", "ts", "js"} :
                     j.fileTypes[ext] = Cardinality(OfExtension(files, ext))
               /\ j.fileTypes.tsx + j.fileTypes.jsx + j.fileTypes.ts + j.fileTypes.js
                  = j.totalFiles

\* analyze_project reported a project with files of each of the four
\* extensions, .ts beside .tsx and .js beside .jsx
C21_Witness ==
    /\ Done(1, "analyze_project") /\ IsReport(out[1])
    /\ \A ext \in {"tsx", "jsx", "ts", "js"} : out[1].text.json.fileTypes[ext] > 0
    /\ out[1].text.json.totalFiles > 4

====
